---- MODULE Spec2Model ----
(***************************************************************************)
(* TranslateBookWithLLM: the translation job of the web API.               *)
(*                                                                         *)
(* One job record of active_translations, the worker thread that runs      *)
(* perform_actual_translation on it, and the HTTP thread that serves the   *)
(* interrupt route.  The worker is cut into steps at every read of the     *)
(* job's 'interrupted' flag and every write of its 'status': those are the *)
(* only accesses the two threads share, so a step holds at most one of     *)
(* them.  The LLM and the file system are the environment: what they       *)
(* answer is chosen with \E.                                               *)
(*                                                                         *)
(* Progress percentages are kept exactly, as integers in units of          *)
(* 1/Scale percent (Scale is a multiple of every possible unit count), so  *)
(* that (i / total) * 100 is not rounded.                                  *)
(***************************************************************************)
EXTENDS Integers, Sequences, FiniteSets, TLC

\* ---- bounds of the model ------------------------------------------------
MaxChunks == 3        \* chunks of a text job
MaxFiles == 2         \* XHTML files of an EPUB spine
MaxJobs == 2          \* job items collected from an EPUB
MaxSubChunks == 2     \* sub-chunks of one EPUB job item
MaxSubtitles == 2     \* subtitles of an SRT file
MaxInterrupts == 2    \* interrupt requests served
MaxLen == 5           \* symbols of a text given to preserve_tags
MaxTags == 2          \* placeholders of a map given to validate_placeholders
MaxText == 3          \* symbols of a text given to validate_placeholders
MaxLines == 6         \* logical lines of a text given to the chunker
MaxTarget == 4        \* main_lines_per_chunk_target
MaxSrtLines == 5      \* lines of a content given to parse_srt
MaxGroup == 4         \* subtitles given to group_subtitles_for_translation
MaxPerBlock == 2      \* lines_per_block
MaxChars == 2         \* max_chars_per_block
MaxWrites == 2        \* writes to a nested object of a stored job
MaxSnapshots == 1     \* snapshots taken by get_translation
MaxRequests == 2      \* submit requests
MaxClock == 2         \* milliseconds the clock runs
MaxMain == 2          \* symbols of a main_content given to generate_translation_request
MaxResponse == 4      \* symbols of a response of the LLM
MaxWords == 26        \* words of a translated chunk
MaxContextChunks == 2 \* chunks whose rolling context is followed
MaxBlockText == 5     \* symbols of a block translation
ContextWords == 25    \* words of a translation kept as context
MaxWorkers == 2       \* translations running in one process
MaxMessages == 2      \* messages a worker logs

\* ---- program constants --------------------------------------------------
MAX_TRANSLATION_ATTEMPTS == 2
max_retries == 3
max_pp_retries == 3

RECURSIVE Fact(_)
Fact(n) == IF n <= 1 THEN 1 ELSE n * Fact(n - 1)

MaxOf(S) == CHOOSE m \in S : \A x \in S : x <= m

\* One percent of progress, in the model's exact units.
Scale == Fact(MaxOf({MaxChunks, MaxFiles, MaxJobs, MaxSubtitles}))

Percent(p) == p * Scale

FileTypes == {"txt", "epub", "srt", "pdf"}
Terminal == {"completed", "interrupted", "error"}

VARIABLES
    \* the job record, active_translations[translation_id]
    status,            \* "absent" before the submit request, then 'status'
    progress,          \* 'progress', in units of 1/Scale percent
    interrupted,       \* 'interrupted'
    stats,             \* 'stats'
    observed,          \* the log holds "Interruption signal detected"
    config,            \* 'config' and the files it names: well_formed is
                       \* an EPUB with .opf, manifest and spine, an SRT
                       \* file that validate_srt accepts
    \* the worker thread
    pc,                \* where the worker is
    total,             \* total_chunks / len(all_translation_jobs) / total_blocks
    i,                 \* index of the chunk loops (translate_chunks, EPUB sub-chunks)
    attempt,           \* attempt of make_request
    main_content,      \* kind of the chunk being translated
    full_raw_response, \* what make_request returned
    completed_count,   \* completed_chunks_count and its EPUB / SRT namesakes
    failed_count,      \* failed_chunks_count and its EPUB / SRT namesakes
    parts,             \* full_translation_parts
    last_successful_llm_context, \* <<>> when empty, <<k>> for the tail of output k
    \* the worker thread, EPUB only
    job_idx,           \* file_idx in phase 1, job_idx in phase 2
    sub_total,         \* len(job['sub_chunks']) of the job being translated
    translated_parts,  \* translated_parts of translate_epub_chunks_with_context
    jobs,              \* the job items translated so far
    \* the worker thread, SRT only
    block_idx,         \* block_idx
    blocks,            \* subtitle_blocks, as the sizes of the blocks
    retry_count,       \* retry_count of the block being translated
    pp_retry_count,    \* pp_retry_count of the block being post-processed
    translations,      \* translations: subtitle index -> "translated" / "original"
    output_file,       \* the output file on disk
    \* the HTTP thread of the interrupt route
    ipc,               \* "idle", or "set" between the test of line 346 and line 347
    nreq,              \* interrupt requests served so far
    resp,              \* status code of the last interrupt response
    \* history
    after_flag,        \* chunk requests started, and chunk outputs produced,
                       \* while 'interrupted' was set
    \* one call of make_request / generate on its own
    client,            \* the class whose retry loop runs
    http_log,          \* what the call did so far: each POST with its
                       \* outcome, each sleep
    \* TagPreserver.preserve_tags and restore_tags on their own
    text,              \* the argument of preserve_tags, a sequence of symbols
    processed_text,    \* processed_text
    tag_map,           \* tag_map: tag_map[n + 1] is the tag of placeholder n
    restored_text,     \* restored_text
    \* TagPreserver.validate_placeholders and fix_mutated_placeholders
    validation,        \* the results of the calls of validate_placeholders
    fixed_text,        \* what fix_mutated_placeholders returned
    \* post_process_translation on its own
    improved_text,     \* improved_text
    returned,          \* what post_process_translation returned
    \* split_text_into_chunks_with_context on its own
    all_lines,         \* all_lines, each line by its kind
    main_lines_per_chunk_target,
    current_position,  \* current_position
    structured_chunks, \* structured_chunks, each part as a range of lines
    \* SRTProcessor.parse_srt and reconstruct_srt on their own
    srt_content,       \* the argument of parse_srt, line by line
    subtitles,         \* what parse_srt returned
    translated_srt,    \* what reconstruct_srt returned, line by line
    \* SRTProcessor.group_subtitles_for_translation on its own
    srt_subtitles,     \* subtitles, each with the length of its stripped text
    lines_per_block,   \* lines_per_block
    max_chars_per_block, \* max_chars_per_block
    subtitle_idx,      \* subtitles the loop of line 140 has taken
    current_block,     \* current_block
    current_char_count, \* current_char_count
    grouped_blocks,    \* blocks
    \* the retry loop of one block of translate_subtitles_in_blocks on its own
    srt_block_indices, \* block_indices
    srt_prompt,        \* prompt: "plain" or "enhanced"
    srt_retry_count,   \* retry_count
    srt_responses,     \* what make_request did, call after call
    translated_block_text, \* translated_block_text and its [index] tags
    srt_translations,  \* translations
    srt_failed_count,  \* failed_count
    \* TranslationStateManager.get_translation and update_translation on their own
    stored,            \* _translations[translation_id]: the fields held by value
    nested,            \* the stats dict, the logs list and the config dict of the stored job
    snapshot,          \* the dicts get_translation returned, oldest first
    store_call,        \* the last call made
    \* the submit route, start_translation_request, called by several clients
    now_ms,            \* int(time.time() * 1000)
    active_translations, \* active_translations: for each id the status and the request that registered it
    submit_pc,         \* where each request stands in start_translation_request
    translation_id,    \* translation_id of each request
    \* the workers of several translations in one process and the global logger
    global_logger,     \* _global_logger: 0 for None, else the translation whose callbacks it holds
    worker_pc,         \* where the worker of each translation stands
    worker_logger,     \* logger of each worker: the translation whose callbacks it calls
    record_status,     \* status of each record, with the worker that wrote it
    record_logs,       \* logs of each record: the worker that emitted each entry
    \* one job of translate_epub_file through phases 2 and 3 on its own
    epub_job,          \* job: its type, the placeholders of its tag_map, its sub-chunks
    epub_parts,        \* translated_parts
    job_translated_text, \* job['translated_text']: None, or whether it holds an error placeholder and the placeholders it lacks
    element,           \* job['element_ref']
    completed_jobs_count, \* completed_jobs_count
    failed_jobs_count, \* failed_jobs_count
    \* generate_translation_request on its own
    chunk_main_content, \* main_content
    raw_response,      \* full_raw_response, <<>> for None
    request_result,    \* what generate_translation_request returns
    \* the rolling context of translate_chunks on its own
    chunk_outcomes,    \* for each chunk: blank, or what generate_translation_request and the post-processing give
    chunk_pos,         \* chunks the loop has taken
    llm_context,       \* last_successful_llm_context
    prompt_contexts,   \* the context given to generate_translation_request, call after call
    \* SRTProcessor.extract_block_translations on its own
    extract_text,      \* translated_text, symbol by symbol
    extract_indices,   \* block_indices
    extract_translations,\* the dict extract_block_translations returns
    \* the interrupt flag of one job record under every writer
    job_record,        \* the record stored under one translation id
    same_id_requests,  \* submit requests that were given this id and have not stored their record
    last_operation     \* the operation that acted last

jobVars == <<status, progress, interrupted, stats, observed, config>>
epubVars == <<job_idx, sub_total, translated_parts, jobs>>
srtVars == <<block_idx, blocks, retry_count, pp_retry_count, translations>>
loopVars == <<total, i, attempt, main_content, full_raw_response,
              completed_count, failed_count, parts, last_successful_llm_context, epubVars, srtVars>>
httpVars == <<ipc, nreq, resp>>
reqVars == <<client, http_log>>
tagVars == <<text, processed_text, tag_map, restored_text>>
validVars == <<validation, fixed_text>>
postVars == <<improved_text, returned>>
chunkVars == <<all_lines, main_lines_per_chunk_target, current_position,
               structured_chunks>>
baseVars == <<jobVars, loopVars, output_file, httpVars, after_flag, reqVars,
              tagVars, validVars, postVars, chunkVars>>
parseVars == <<srt_content, subtitles, translated_srt>>
groupVars == <<srt_subtitles, lines_per_block, max_chars_per_block,
               subtitle_idx, current_block, current_char_count,
               grouped_blocks>>
blockVars == <<srt_block_indices, srt_prompt, srt_retry_count, srt_responses,
               translated_block_text, srt_translations, srt_failed_count>>
storeVars == <<stored, nested, snapshot, store_call>>
submitVars == <<now_ms, active_translations, submit_pc, translation_id>>
loggerVars == <<global_logger, worker_pc, worker_logger, record_status,
                record_logs>>
spliceVars == <<epub_job, epub_parts, job_translated_text, element,
                completed_jobs_count, failed_jobs_count>>
fallbackVars == <<chunk_main_content, raw_response, request_result>>
contextVars == <<chunk_outcomes, chunk_pos, llm_context, prompt_contexts>>
extractVars == <<extract_text, extract_indices, extract_translations>>
flagVars == <<job_record, same_id_requests, last_operation>>
parseFrame == <<baseVars, groupVars, blockVars, storeVars, submitVars,
                loggerVars, spliceVars, fallbackVars, contextVars,
                extractVars, flagVars>>
groupFrame == <<baseVars, parseVars, blockVars, storeVars, submitVars,
                loggerVars, spliceVars, fallbackVars, contextVars,
                extractVars, flagVars>>
blockFrame == <<baseVars, parseVars, groupVars, storeVars, submitVars,
                loggerVars, spliceVars, fallbackVars, contextVars,
                extractVars, flagVars>>
storeFrame == <<baseVars, parseVars, groupVars, blockVars, submitVars,
                loggerVars, spliceVars, fallbackVars, contextVars,
                extractVars, flagVars>>
submitFrame == <<baseVars, parseVars, groupVars, blockVars, storeVars,
                 loggerVars, spliceVars, fallbackVars, contextVars,
                 extractVars, flagVars>>
loggerFrame == <<baseVars, parseVars, groupVars, blockVars, storeVars,
                 submitVars, spliceVars, fallbackVars, contextVars,
                 extractVars, flagVars>>
spliceFrame == <<baseVars, parseVars, groupVars, blockVars, storeVars,
                 submitVars, loggerVars, fallbackVars, contextVars,
                 extractVars, flagVars>>
fallbackFrame == <<baseVars, parseVars, groupVars, blockVars, storeVars,
                   submitVars, loggerVars, spliceVars, contextVars,
                   extractVars, flagVars>>
contextFrame == <<baseVars, parseVars, groupVars, blockVars, storeVars,
                  submitVars, loggerVars, spliceVars, fallbackVars,
                  extractVars, flagVars>>
extractFrame == <<baseVars, parseVars, groupVars, blockVars, storeVars,
                  submitVars, loggerVars, spliceVars, fallbackVars,
                  contextVars, flagVars>>
flagFrame == <<baseVars, parseVars, groupVars, blockVars, storeVars,
               submitVars, loggerVars, spliceVars, fallbackVars, contextVars,
               extractVars>>
otherVars == <<parseVars, groupVars, blockVars, storeVars, submitVars,
               loggerVars, spliceVars, fallbackVars, contextVars,
               extractVars, flagVars>>
fnVars == <<reqVars, tagVars, validVars, postVars, chunkVars, otherVars>>
vars == <<status, progress, interrupted, stats, observed, config, pc, total, i,
          attempt, main_content, full_raw_response, completed_count,
          failed_count, parts, last_successful_llm_context, job_idx, sub_total,
          translated_parts, jobs, block_idx, blocks, retry_count,
          pp_retry_count, translations,
          output_file, ipc, nreq, resp, after_flag, fnVars>>

NoStats == [total_chunks |-> 0, completed_chunks |-> 0, failed_chunks |-> 0,
            total_subtitles |-> 0, completed_subtitles |-> 0,
            failed_subtitles |-> 0]

NoFile == [exists |-> FALSE, units |-> 0]

\* The subtitle indices an LLM answer can name: those of the file, 0-based,
\* and one that no subtitle has.
Indices == 0..MaxSubtitles

NoTranslations == [k \in Indices |-> "none"]

\* No call of a function on its own is under way.
NoTags ==
    /\ text = <<>>
    /\ processed_text = <<>>
    /\ tag_map = <<>>
    /\ restored_text = <<>>

NoValidation ==
    /\ validation = <<>>
    /\ fixed_text = <<>>

NoPostProcess ==
    /\ improved_text = <<>>
    /\ returned = <<>>

NoChunker ==
    /\ all_lines = <<>>
    /\ main_lines_per_chunk_target = 0
    /\ current_position = 0
    /\ structured_chunks = <<>>

\* None of the calls above is under way.
NoBaseCalls ==
    /\ client = "none"
    /\ http_log = <<>>
    /\ NoTags
    /\ NoValidation
    /\ NoPostProcess
    /\ NoChunker

NoParse ==
    /\ srt_content = <<>>
    /\ subtitles = <<>>
    /\ translated_srt = <<>>

NoGroup ==
    /\ srt_subtitles = <<>>
    /\ lines_per_block = 0
    /\ max_chars_per_block = 0
    /\ subtitle_idx = 0
    /\ current_block = <<>>
    /\ current_char_count = 0
    /\ grouped_blocks = <<>>

NoBlock ==
    /\ srt_block_indices = {}
    /\ srt_prompt = "none"
    /\ srt_retry_count = 0
    /\ srt_responses = <<>>
    /\ translated_block_text = [text |-> FALSE, found |-> {}]
    /\ srt_translations = <<>>
    /\ srt_failed_count = 0

NoStore ==
    /\ stored = [status |-> "absent", progress |-> 0]
    /\ nested = [stats |-> 0, logs |-> 0, config |-> 0]
    /\ snapshot = <<>>
    /\ store_call = "none"

NoSubmit ==
    /\ now_ms = 0
    /\ active_translations = <<>>
    /\ submit_pc = <<>>
    /\ translation_id = <<>>

NoLogger ==
    /\ global_logger = 0
    /\ worker_pc = <<>>
    /\ worker_logger = <<>>
    /\ record_status = <<>>
    /\ record_logs = <<>>

NoSplice ==
    /\ epub_job = [type |-> "none", tag_map |-> {}, sub_chunks |-> 0]
    /\ epub_parts = <<>>
    /\ job_translated_text = [set |-> FALSE, error |-> FALSE, missing |-> {}]
    /\ element = [text |-> "source", children |-> "source", tail |-> "source"]
    /\ completed_jobs_count = 0
    /\ failed_jobs_count = 0

NoFallback ==
    /\ chunk_main_content = <<>>
    /\ raw_response = <<>>
    /\ request_result = [none |-> TRUE, text |-> <<>>]

NoContext ==
    /\ chunk_outcomes = <<>>
    /\ chunk_pos = 0
    /\ llm_context = <<>>
    /\ prompt_contexts = <<>>

NoExtract ==
    /\ extract_text = <<>>
    /\ extract_indices = {}
    /\ extract_translations = <<>>

NoFlag ==
    /\ job_record = [status |-> "absent", interrupted |-> FALSE]
    /\ same_id_requests = 0
    /\ last_operation = "none"

OnlyParse ==
    /\ NoBaseCalls
    /\ NoGroup
    /\ NoBlock
    /\ NoStore
    /\ NoSubmit
    /\ NoLogger
    /\ NoSplice
    /\ NoFallback
    /\ NoContext
    /\ NoExtract
    /\ NoFlag

OnlyGroup ==
    /\ NoBaseCalls
    /\ NoParse
    /\ NoBlock
    /\ NoStore
    /\ NoSubmit
    /\ NoLogger
    /\ NoSplice
    /\ NoFallback
    /\ NoContext
    /\ NoExtract
    /\ NoFlag

OnlyBlock ==
    /\ NoBaseCalls
    /\ NoParse
    /\ NoGroup
    /\ NoStore
    /\ NoSubmit
    /\ NoLogger
    /\ NoSplice
    /\ NoFallback
    /\ NoContext
    /\ NoExtract
    /\ NoFlag

OnlyStore ==
    /\ NoBaseCalls
    /\ NoParse
    /\ NoGroup
    /\ NoBlock
    /\ NoSubmit
    /\ NoLogger
    /\ NoSplice
    /\ NoFallback
    /\ NoContext
    /\ NoExtract
    /\ NoFlag

OnlySubmit ==
    /\ NoBaseCalls
    /\ NoParse
    /\ NoGroup
    /\ NoBlock
    /\ NoStore
    /\ NoLogger
    /\ NoSplice
    /\ NoFallback
    /\ NoContext
    /\ NoExtract
    /\ NoFlag

OnlyLogger ==
    /\ NoBaseCalls
    /\ NoParse
    /\ NoGroup
    /\ NoBlock
    /\ NoStore
    /\ NoSubmit
    /\ NoSplice
    /\ NoFallback
    /\ NoContext
    /\ NoExtract
    /\ NoFlag

OnlySplice ==
    /\ NoBaseCalls
    /\ NoParse
    /\ NoGroup
    /\ NoBlock
    /\ NoStore
    /\ NoSubmit
    /\ NoLogger
    /\ NoFallback
    /\ NoContext
    /\ NoExtract
    /\ NoFlag

OnlyFallback ==
    /\ NoBaseCalls
    /\ NoParse
    /\ NoGroup
    /\ NoBlock
    /\ NoStore
    /\ NoSubmit
    /\ NoLogger
    /\ NoSplice
    /\ NoContext
    /\ NoExtract
    /\ NoFlag

OnlyContext ==
    /\ NoBaseCalls
    /\ NoParse
    /\ NoGroup
    /\ NoBlock
    /\ NoStore
    /\ NoSubmit
    /\ NoLogger
    /\ NoSplice
    /\ NoFallback
    /\ NoExtract
    /\ NoFlag

OnlyExtract ==
    /\ NoBaseCalls
    /\ NoParse
    /\ NoGroup
    /\ NoBlock
    /\ NoStore
    /\ NoSubmit
    /\ NoLogger
    /\ NoSplice
    /\ NoFallback
    /\ NoContext
    /\ NoFlag

OnlyFlag ==
    /\ NoBaseCalls
    /\ NoParse
    /\ NoGroup
    /\ NoBlock
    /\ NoStore
    /\ NoSubmit
    /\ NoLogger
    /\ NoSplice
    /\ NoFallback
    /\ NoContext
    /\ NoExtract

NoOtherCalls ==
    /\ NoParse
    /\ NoGroup
    /\ NoBlock
    /\ NoStore
    /\ NoSubmit
    /\ NoLogger
    /\ NoSplice
    /\ NoFallback
    /\ NoContext
    /\ NoExtract
    /\ NoFlag

NoCalls ==
    /\ client = "none"
    /\ http_log = <<>>
    /\ NoTags
    /\ NoValidation
    /\ NoPostProcess
    /\ NoChunker
    /\ NoOtherCalls

\* No job is registered and the worker is at position p.
JobIdle(p) ==
    /\ status = "absent"
    /\ progress = 0
    /\ interrupted = FALSE
    /\ stats = NoStats
    /\ observed = FALSE
    /\ config = [file_type |-> "txt", has_path |-> TRUE, input_exists |-> TRUE,
                 output_writable |-> TRUE,
                 well_formed |-> TRUE, enable_post_processing |-> FALSE]
    /\ pc = p
    /\ total = 0
    /\ i = 0
    /\ attempt = 0
    /\ main_content = "none"
    /\ full_raw_response = "none"
    /\ completed_count = 0
    /\ failed_count = 0
    /\ parts = <<>>
    /\ last_successful_llm_context = <<>>
    /\ job_idx = 0
    /\ sub_total = 0
    /\ translated_parts = <<>>
    /\ jobs = <<>>
    /\ block_idx = 0
    /\ blocks = <<>>
    /\ retry_count = 0
    /\ pp_retry_count = 0
    /\ translations = NoTranslations
    /\ output_file = NoFile
    /\ ipc = "idle"
    /\ nreq = 0
    /\ resp = 0
    /\ after_flag = [requests |-> 0, chunks |-> 0]

Init == JobIdle("idle") /\ NoCalls

\* ---- the submit route ---------------------------------------------------

\* POST /api/translate: registers the record and starts the worker thread.
\* A text job always has an input: the inline text is written to a temp file.
start_translation_request ==
    /\ status = "absent"
    /\ \E ft \in FileTypes, hp \in BOOLEAN, ex \in BOOLEAN, ow \in BOOLEAN,
          wf \in BOOLEAN, pp \in BOOLEAN :
          /\ (ft # "srt" => ~pp)
          /\ (ft \in {"txt", "pdf"} => hp)
          /\ (ft = "pdf" \/ ~hp => ex /\ ow)
          /\ (ft \notin {"epub", "srt"} \/ ~hp \/ ~ex => wf)
          /\ config' = [file_type |-> ft, has_path |-> hp, input_exists |-> ex,
                        output_writable |-> ow, well_formed |-> wf,
                        enable_post_processing |-> pp]
    /\ status' = "queued"
    /\ progress' = 0
    /\ stats' = NoStats
    /\ interrupted' = FALSE
    /\ pc' = "start"
    /\ UNCHANGED <<observed, loopVars, output_file, httpVars, after_flag>>
    /\ UNCHANGED fnVars

\* ---- the interrupt route ------------------------------------------------

\* The test of line 346 with 'queued' forgotten.
interruptible_running_only(s) == s = "running"

\* Line 346: the statuses in which the route sets the flag.
interruptible(s) == s = "running" \/ s = "queued"

\* POST /api/translation/<id>/interrupt, up to the test of the status.
interrupt_translation_job ==
    /\ ipc = "idle"
    /\ nreq < MaxInterrupts
    /\ nreq' = nreq + 1
    /\ IF status = "absent"
       THEN resp' = 404 /\ ipc' = "idle"
       ELSE IF interruptible(status)
            THEN resp' = 0 /\ ipc' = "set"
            ELSE resp' = 400 /\ ipc' = "idle"
    /\ UNCHANGED <<jobVars, pc, loopVars, output_file, after_flag>>
    /\ UNCHANGED fnVars

\* Lines 347-348 as a route that also writes the job's status itself.
interrupt_set_flag_and_status ==
    /\ ipc = "set"
    /\ interrupted' = TRUE
    /\ status' = "interrupted"
    /\ resp' = 200
    /\ ipc' = "idle"
    /\ UNCHANGED <<progress, stats, observed, config, pc, loopVars,
                   output_file, nreq, after_flag>>
    /\ UNCHANGED fnVars

\* Lines 347-348: job['interrupted'] = True, answer 200.
interrupt_set_flag ==
    /\ ipc = "set"
    /\ interrupted' = TRUE
    /\ resp' = 200
    /\ ipc' = "idle"
    /\ UNCHANGED <<status, progress, stats, observed, config, pc, loopVars,
                   output_file, nreq, after_flag>>
    /\ UNCHANGED fnVars

\* ---- callbacks of perform_actual_translation ----------------------------

\* should_interrupt_current_task reading a key the route never sets.
should_interrupt_wrong_key == FALSE

\* What should_interrupt_current_task returns.
should_interrupt_current_task == interrupted

\* The progress callback without the test of the flag.
_update_translation_progress_unguarded(progress_percent) == progress_percent

\* The value _update_translation_progress_callback leaves in 'progress'.
_update_translation_progress_callback(progress_percent) ==
    IF ~interrupted THEN progress_percent ELSE progress

\* ---- the worker: start --------------------------------------------------

\* Line 60: the worker marks the job running.
perform_start ==
    /\ pc = "start"
    /\ status' = "running"
    /\ pc' = "dispatch"
    /\ UNCHANGED <<progress, interrupted, stats, observed, config, loopVars,
                   output_file, httpVars, after_flag>>
    /\ UNCHANGED fnVars

\* Lines 144-147, 199-204 and 220-222: the file types that raise at once.
\* An SRT job without file_path raises in os.path.exists(None).
dispatch_raises ==
    \/ config.file_type \notin {"txt", "epub", "srt"}
    \/ config.file_type \in {"epub", "srt"} /\ ~config.has_path

perform_dispatch_raise ==
    /\ pc = "dispatch"
    /\ dispatch_raises
    /\ pc' = "except"
    /\ UNCHANGED <<jobVars, loopVars, output_file, httpVars, after_flag>>
    /\ UNCHANGED fnVars

\* ---- one call of LLMClient.make_request ---------------------------------

\* What one HTTP attempt ends in: "error" is a timeout, a non-2xx status, a
\* malformed body or any other exception; the others are the response text:
\* empty, with the output markers, without them, or an echo of the input.
HttpOutcomes == {"error", "empty", "tagged", "raw", "echo"}

\* The attempt loop asking for one request more than the configured number.
attempt_outcome_one_more(outcome, next) ==
    IF outcome = "error"
    THEN IF attempt < MAX_TRANSLATION_ATTEMPTS
         THEN /\ attempt' = attempt + 1
              /\ UNCHANGED <<pc, full_raw_response>>
         ELSE /\ full_raw_response' = "none"
              /\ attempt' = 0
              /\ pc' = next
    ELSE /\ full_raw_response' = outcome
         /\ attempt' = 0
         /\ pc' = next

\* Lines 49-85: what one pass of the attempt loop does with the outcome of
\* its POST; the call returns to `next`.
attempt_outcome(outcome, next) ==
    IF outcome = "error"
    THEN IF attempt < MAX_TRANSLATION_ATTEMPTS - 1
         THEN /\ attempt' = attempt + 1
              /\ UNCHANGED <<pc, full_raw_response>>
         ELSE /\ full_raw_response' = "none"
              /\ attempt' = 0
              /\ pc' = next
    ELSE /\ full_raw_response' = outcome
         /\ attempt' = 0
         /\ pc' = next

\* Lines 49-85: one pass of the attempt loop, at worker position `here`.
make_request(here, next) ==
    /\ pc = here
    /\ \E outcome \in HttpOutcomes : attempt_outcome(outcome, next)

\* Lines 42-45 and 68-101 of generate_translation_request: TRUE when it
\* returns a text, FALSE when it returns None.
generate_translation_request(content, response) ==
    IF content = "short" THEN TRUE
    ELSE response \in {"tagged", "raw"}

\* ---- the text pipeline --------------------------------------------------

\* translate_chunks line 274: (i / total_chunks) * 100.
chunk_progress(idx, n) == (idx * Percent(100)) \div n

\* translate_text_file_with_callbacks, lines 35-91.  The chunker never
\* emits a chunk whose main content is blank (text_processor.py 158-162), so
\* the chunks are "text" or "short" (at most one non-blank character).
txt_open ==
    /\ pc = "dispatch"
    /\ config.file_type = "txt"
    /\ IF ~config.input_exists
       THEN /\ pc' = "final_check"
            /\ UNCHANGED <<progress, stats, total, i, completed_count,
                           failed_count, parts, last_successful_llm_context, output_file>>
       ELSE \E n \in 0..MaxChunks :
              IF n = 0
              THEN /\ output_file' = IF config.output_writable
                                     THEN [exists |-> TRUE, units |-> 0]
                                     ELSE output_file
                   /\ progress' = _update_translation_progress_callback(Percent(100))
                   /\ pc' = "final_check"
                   /\ UNCHANGED <<stats, total, i, completed_count,
                                  failed_count, parts, last_successful_llm_context>>
              ELSE /\ total' = n
                   /\ stats' = [stats EXCEPT !.total_chunks = n,
                                             !.completed_chunks = 0,
                                             !.failed_chunks = 0]
                   /\ i' = 0
                   /\ completed_count' = 0
                   /\ failed_count' = 0
                   /\ parts' = <<>>
                   /\ last_successful_llm_context' = <<>>
                   /\ pc' = "tc_poll"
                   /\ UNCHANGED <<progress, output_file>>
    /\ UNCHANGED <<status, interrupted, observed, config, attempt, main_content,
                   full_raw_response, epubVars, srtVars, httpVars,
                   after_flag>>
    /\ UNCHANGED fnVars

\* translate_chunks polling the flag before its first chunk only.
tc_poll_first_chunk_only ==
    /\ pc = "tc_poll"
    /\ IF i = 0 /\ should_interrupt_current_task
       THEN observed' = TRUE /\ pc' = "txt_progress100"
       ELSE observed' = observed /\ pc' = "tc_progress"
    /\ UNCHANGED <<status, progress, interrupted, stats, config, loopVars,
                   output_file, httpVars, after_flag>>
    /\ UNCHANGED fnVars

\* translate_chunks, lines 265-271: the poll point at the head of the loop.
tc_poll ==
    /\ pc = "tc_poll"
    /\ IF should_interrupt_current_task
       THEN observed' = TRUE /\ pc' = "txt_progress100"
       ELSE observed' = observed /\ pc' = "tc_progress"
    /\ UNCHANGED <<status, progress, interrupted, stats, config, loopVars,
                   output_file, httpVars, after_flag>>
    /\ UNCHANGED fnVars

\* Lines 273-274.
tc_progress ==
    /\ pc = "tc_progress"
    /\ progress' = _update_translation_progress_callback(chunk_progress(i, total))
    /\ pc' = "tc_request"
    /\ UNCHANGED <<status, interrupted, stats, observed, config, loopVars,
                   output_file, httpVars, after_flag>>
    /\ UNCHANGED fnVars

\* The main contents translate_chunks can be given.  The chunker never emits
\* a chunk whose main content is blank (text_processor.py 158-162), so a
\* chunk of the text pipeline is "text" or "short" (at most one non-blank
\* character); a caller that builds the chunk list itself can pass "blank"
\* ones too.
main_contents ==
    IF config.file_type = "chunks" THEN {"text", "short", "blank"}
    ELSE {"text", "short"}

\* Lines 282-298, up to the start of the LLM request.  A blank chunk takes
\* the branch of line 286 and a short one returns at line 45: neither asks
\* the LLM.
tc_request ==
    /\ pc = "tc_request"
    /\ \E kind \in main_contents :
          /\ main_content' = kind
          /\ IF kind \in {"short", "blank"}
             THEN pc' = "tc_result" /\ UNCHANGED after_flag
             ELSE /\ pc' = "tc_llm"
                  /\ after_flag' = [after_flag EXCEPT !.requests = @ + (IF interrupted THEN 1 ELSE 0)]
    /\ attempt' = 0
    /\ UNCHANGED <<jobVars, total, i, full_raw_response, completed_count,
                   failed_count, parts, last_successful_llm_context, epubVars, srtVars, output_file, httpVars>>
    /\ UNCHANGED fnVars

tc_llm ==
    /\ make_request("tc_llm", "tc_result")
    /\ UNCHANGED <<jobVars, total, i, main_content, completed_count,
                   failed_count, parts, last_successful_llm_context, epubVars, srtVars, output_file, httpVars,
                   after_flag>>
    /\ UNCHANGED fnVars

\* Line 332: the placeholder of a chunk that could not be translated.
error_placeholder(idx, main) ==
    [kind |-> "error", segment |-> idx + 1, main_content |-> main]

\* Lines 321-325: the rolling context after a success is the tail of the
\* output of chunk idx.
context_of(idx) == <<idx>>

\* translate_chunks that drops a chunk it could not translate.
tc_result_drop_failed ==
    /\ pc = "tc_result"
    /\ LET blank == main_content = "blank"
           ok == blank \/ generate_translation_request(main_content, full_raw_response)
           c == completed_count + (IF ok THEN 1 ELSE 0)
           f == failed_count + (IF ok THEN 0 ELSE 1)
       IN /\ parts' = IF blank
                       THEN Append(parts, [chunk |-> i, text |-> [kind |-> "main", main_content |-> main_content]])
                       ELSE IF ok
                       THEN Append(parts, [chunk |-> i, text |-> [kind |-> "translated"]])
                       ELSE parts
          /\ last_successful_llm_context' =
                IF blank THEN last_successful_llm_context
                ELSE IF ok THEN context_of(i) ELSE <<>>
          /\ completed_count' = c
          /\ failed_count' = f
          /\ stats' = [stats EXCEPT !.completed_chunks = c, !.failed_chunks = f]
    /\ i' = i + 1
    /\ after_flag' = [after_flag EXCEPT !.chunks = @ + (IF interrupted THEN 1 ELSE 0)]
    /\ pc' = IF i + 1 < total THEN "tc_poll" ELSE "txt_progress100"
    /\ main_content' = "none"
    /\ full_raw_response' = "none"
    /\ UNCHANGED <<status, progress, interrupted, observed, config, total,
                   attempt, epubVars, srtVars, output_file, httpVars>>
    /\ UNCHANGED fnVars

\* translate_chunks that keeps the rolling context after a failed chunk.
tc_result_keep_context ==
    /\ pc = "tc_result"
    /\ LET blank == main_content = "blank"
           ok == blank \/ generate_translation_request(main_content, full_raw_response)
           c == completed_count + (IF ok THEN 1 ELSE 0)
           f == failed_count + (IF ok THEN 0 ELSE 1)
       IN /\ parts' = Append(parts,
                [chunk |-> i,
                 text |-> IF blank THEN [kind |-> "main", main_content |-> main_content]
                          ELSE IF ok THEN [kind |-> "translated"]
                          ELSE error_placeholder(i, main_content)])
          /\ last_successful_llm_context' =
                IF blank \/ ~ok THEN last_successful_llm_context
                ELSE context_of(i)
          /\ completed_count' = c
          /\ failed_count' = f
          /\ stats' = [stats EXCEPT !.completed_chunks = c, !.failed_chunks = f]
    /\ i' = i + 1
    /\ after_flag' = [after_flag EXCEPT !.chunks = @ + (IF interrupted THEN 1 ELSE 0)]
    /\ pc' = IF i + 1 < total THEN "tc_poll" ELSE "txt_progress100"
    /\ main_content' = "none"
    /\ full_raw_response' = "none"
    /\ UNCHANGED <<status, progress, interrupted, observed, config, total,
                   attempt, epubVars, srtVars, output_file, httpVars>>
    /\ UNCHANGED fnVars

\* Lines 286-291 and 300-338: the chunk's output, the rolling context, the
\* counts and the statistics.  A blank chunk is passed through and counts
\* as completed; its statistics are those of line 290.
tc_result ==
    /\ pc = "tc_result"
    /\ LET blank == main_content = "blank"
           ok == blank \/ generate_translation_request(main_content, full_raw_response)
           c == completed_count + (IF ok THEN 1 ELSE 0)
           f == failed_count + (IF ok THEN 0 ELSE 1)
       IN /\ parts' = Append(parts,
                [chunk |-> i,
                 text |-> IF blank THEN [kind |-> "main", main_content |-> main_content]
                          ELSE IF ok THEN [kind |-> "translated"]
                          ELSE error_placeholder(i, main_content)])
          /\ last_successful_llm_context' =
                IF blank THEN last_successful_llm_context
                ELSE IF ok THEN context_of(i) ELSE <<>>
          /\ completed_count' = c
          /\ failed_count' = f
          /\ stats' = [stats EXCEPT !.completed_chunks = c, !.failed_chunks = f]
    /\ i' = i + 1
    /\ after_flag' = [after_flag EXCEPT !.chunks = @ + (IF interrupted THEN 1 ELSE 0)]
    /\ pc' = IF i + 1 < total THEN "tc_poll" ELSE "txt_progress100"
    /\ main_content' = "none"
    /\ full_raw_response' = "none"
    /\ UNCHANGED <<status, progress, interrupted, observed, config, total,
                   attempt, epubVars, srtVars, output_file, httpVars>>
    /\ UNCHANGED fnVars

\* translate_text_file_with_callbacks, lines 107-108.
txt_progress100 ==
    /\ pc = "txt_progress100"
    /\ progress' = _update_translation_progress_callback(Percent(100))
    /\ pc' = "txt_save"
    /\ UNCHANGED <<status, interrupted, stats, observed, config, loopVars,
                   output_file, httpVars, after_flag>>
    /\ UNCHANGED fnVars

\* Lines 110-122: the write of the output file; a failure is logged only.
txt_save ==
    /\ pc = "txt_save"
    /\ output_file' = IF config.output_writable
                      THEN [exists |-> TRUE, units |-> Len(parts)]
                      ELSE output_file
    /\ pc' = "final_check"
    /\ UNCHANGED <<jobVars, loopVars, httpVars, after_flag>>
    /\ UNCHANGED fnVars

\* ---- the EPUB pipeline -------------------------------------------------

\* translate_epub_file line 502: (file_idx / len(content_files_hrefs)) * 10.
phase1_progress(file_idx, n) == (file_idx * Percent(10)) \div n

\* Phase 2 progress without the 10 percent of phase 1.
phase2_progress_no_base(idx, n) == (idx * Percent(90)) \div n

\* Lines 581-582: 10 + ((job_idx + 1) / len(all_translation_jobs)) * 90.
phase2_progress(idx, n) == Percent(10) + ((idx + 1) * Percent(90)) \div n

\* translate_epub_file, lines 447-497.  A missing input returns at once; an
\* archive without .opf, manifest or spine raises into the handler of line
\* 714, which logs and returns.
epub_open ==
    /\ pc = "dispatch"
    /\ config.file_type = "epub"
    /\ config.has_path
    /\ IF ~config.input_exists
       THEN pc' = "final_check" /\ UNCHANGED <<total, job_idx>>
       ELSE \E nfiles \in 0..MaxFiles :
              IF ~config.well_formed
              THEN pc' = "final_check" /\ UNCHANGED <<total, job_idx>>
              ELSE /\ total' = nfiles
                   /\ job_idx' = 0
                   /\ pc' = IF nfiles > 0 THEN "ep1_file" ELSE "ep1_done"
    /\ UNCHANGED <<jobVars, i, attempt, main_content, full_raw_response,
                   completed_count, failed_count, parts, last_successful_llm_context, sub_total,
                   translated_parts, jobs, srtVars, output_file, httpVars,
                   after_flag>>
    /\ UNCHANGED fnVars

\* Lines 500-536: one content file of phase 1.
ep1_file ==
    /\ pc = "ep1_file"
    /\ progress' = _update_translation_progress_callback(phase1_progress(job_idx, total))
    /\ job_idx' = job_idx + 1
    /\ pc' = IF job_idx + 1 < total THEN "ep1_file" ELSE "ep1_done"
    /\ UNCHANGED <<status, interrupted, stats, observed, config, total, i,
                   attempt, main_content, full_raw_response, completed_count,
                   failed_count, parts, last_successful_llm_context, sub_total, translated_parts, jobs,
                   srtVars, output_file, httpVars, after_flag>>
    /\ UNCHANGED fnVars

\* Lines 538-569: the jobs collected; none ends the pipeline with no output.
ep1_done ==
    /\ pc = "ep1_done"
    /\ \E njobs \in 0..MaxJobs :
          /\ (total = 0 => njobs = 0)
          /\ IF njobs = 0
             THEN /\ progress' = _update_translation_progress_callback(Percent(100))
                  /\ pc' = "final_check"
                  /\ UNCHANGED <<stats, total, job_idx, completed_count,
                                 failed_count, jobs>>
             ELSE /\ stats' = [stats EXCEPT !.total_chunks = njobs,
                                            !.completed_chunks = 0,
                                            !.failed_chunks = 0]
                  /\ total' = njobs
                  /\ job_idx' = 0
                  /\ completed_count' = 0
                  /\ failed_count' = 0
                  /\ jobs' = <<>>
                  /\ pc' = "ep2_poll"
                  /\ UNCHANGED progress
    /\ UNCHANGED <<status, interrupted, observed, config, i, attempt,
                   main_content, full_raw_response, parts, last_successful_llm_context, sub_total,
                   translated_parts, srtVars, output_file, httpVars,
                   after_flag>>
    /\ UNCHANGED fnVars

\* Lines 572-578: the poll point at the head of the job loop.
ep2_poll ==
    /\ pc = "ep2_poll"
    /\ IF should_interrupt_current_task
       THEN observed' = TRUE /\ pc' = "epub_progress100"
       ELSE observed' = observed /\ pc' = "ep2_progress"
    /\ UNCHANGED <<status, progress, interrupted, stats, config, loopVars,
                   output_file, httpVars, after_flag>>
    /\ UNCHANGED fnVars

\* Lines 580-590: progress, then the call of
\* translate_epub_chunks_with_context on the job's sub-chunks.
ep2_progress ==
    /\ pc = "ep2_progress"
    /\ progress' = _update_translation_progress_callback(phase2_progress(job_idx, total))
    /\ \E n \in 1..MaxSubChunks : sub_total' = n
    /\ i' = 0
    /\ translated_parts' = <<>>
    /\ pc' = "ec_poll"
    /\ UNCHANGED <<status, interrupted, stats, observed, config, total, attempt,
                   main_content, full_raw_response, completed_count,
                   failed_count, parts, last_successful_llm_context, job_idx, jobs, srtVars, output_file,
                   httpVars, after_flag>>
    /\ UNCHANGED fnVars

\* translate_epub_chunks_with_context, lines 375-379: the poll point at the
\* head of the sub-chunk loop; the break returns the parts translated so far.
ec_poll ==
    /\ pc = "ec_poll"
    /\ IF should_interrupt_current_task
       THEN observed' = TRUE /\ pc' = "ep2_job_done"
       ELSE observed' = observed /\ pc' = "ec_request"
    /\ UNCHANGED <<status, progress, interrupted, stats, config, loopVars,
                   output_file, httpVars, after_flag>>
    /\ UNCHANGED fnVars

\* Lines 381-394, up to the start of the LLM request.
ec_request ==
    /\ pc = "ec_request"
    /\ \E kind \in {"text", "short"} :
          /\ main_content' = kind
          /\ IF kind = "short"
             THEN pc' = "ec_result" /\ UNCHANGED after_flag
             ELSE /\ pc' = "ec_llm"
                  /\ after_flag' = [after_flag EXCEPT !.requests = @ + (IF interrupted THEN 1 ELSE 0)]
    /\ attempt' = 0
    /\ UNCHANGED <<jobVars, total, i, full_raw_response, completed_count,
                   failed_count, parts, last_successful_llm_context, epubVars, srtVars, output_file, httpVars>>
    /\ UNCHANGED fnVars

ec_llm ==
    /\ make_request("ec_llm", "ec_result")
    /\ UNCHANGED <<jobVars, total, i, main_content, completed_count,
                   failed_count, parts, last_successful_llm_context, epubVars, srtVars, output_file, httpVars,
                   after_flag>>
    /\ UNCHANGED fnVars

\* Lines 396-418: the sub-chunk's output.
ec_result ==
    /\ pc = "ec_result"
    /\ LET ok == generate_translation_request(main_content, full_raw_response)
       IN translated_parts' = Append(translated_parts,
                                     IF ok THEN "translated" ELSE "error")
    /\ i' = i + 1
    /\ after_flag' = [after_flag EXCEPT !.chunks = @ + (IF interrupted THEN 1 ELSE 0)]
    /\ pc' = IF i + 1 < sub_total THEN "ec_poll" ELSE "ep2_job_done"
    /\ main_content' = "none"
    /\ full_raw_response' = "none"
    /\ UNCHANGED <<jobVars, total, attempt, completed_count, failed_count,
                   parts, last_successful_llm_context, job_idx, sub_total, jobs, srtVars, output_file,
                   httpVars>>
    /\ UNCHANGED fnVars

\* Line 600, "\n".join(translated_parts): what the joined text covers of
\* the job's n sub-chunks.
joined(tparts, n) ==
    IF Len(tparts) = n THEN "all"
    ELSE IF Len(tparts) = 0 THEN "empty" ELSE "prefix"

\* translate_epub_file, lines 592-635: the job's translated_text is set to
\* the joined parts, and the job counts as failed when a part is an error
\* placeholder.
ep2_job_done ==
    /\ pc = "ep2_job_done"
    /\ LET has_translation_error ==
               \E k \in 1..Len(translated_parts) : translated_parts[k] = "error"
           c == completed_count + (IF has_translation_error THEN 0 ELSE 1)
           f == failed_count + (IF has_translation_error THEN 1 ELSE 0)
       IN /\ completed_count' = c
          /\ failed_count' = f
          /\ stats' = [stats EXCEPT !.completed_chunks = c, !.failed_chunks = f]
          /\ jobs' = Append(jobs,
                [translated_text |-> joined(translated_parts, sub_total),
                 has_translation_error |-> has_translation_error])
    /\ job_idx' = job_idx + 1
    /\ i' = 0
    /\ sub_total' = 0
    /\ translated_parts' = <<>>
    /\ pc' = IF job_idx + 1 < total THEN "ep2_poll" ELSE "epub_progress100"
    /\ UNCHANGED <<status, progress, interrupted, observed, config, total,
                   attempt, main_content, full_raw_response, parts, last_successful_llm_context, srtVars,
                   output_file, httpVars, after_flag>>
    /\ UNCHANGED fnVars

\* Lines 637-638.
epub_progress100 ==
    /\ pc = "epub_progress100"
    /\ progress' = _update_translation_progress_callback(Percent(100))
    /\ pc' = "epub_save"
    /\ UNCHANGED <<status, interrupted, stats, observed, config, loopVars,
                   output_file, httpVars, after_flag>>
    /\ UNCHANGED fnVars

\* Lines 640-723: phase 3 splices every job that has a translated_text, the
\* files are written and zipped; a failure of the zip raises into the
\* handler of line 714, which logs and returns.
epub_save ==
    /\ pc = "epub_save"
    /\ output_file' = IF config.output_writable
                      THEN [exists |-> TRUE, units |-> Len(jobs)]
                      ELSE output_file
    /\ pc' = "final_check"
    /\ UNCHANGED <<jobVars, loopVars, httpVars, after_flag>>
    /\ UNCHANGED fnVars

\* ---- the SRT pipeline --------------------------------------------------

RECURSIVE Sum(_)
Sum(seq) == IF seq = <<>> THEN 0 ELSE Head(seq) + Sum(Tail(seq))

\* The ways group_subtitles_for_translation can cut n subtitles into
\* consecutive blocks: every parsed subtitle has text, so each lands in one.
Groupings(n) ==
    {bs \in UNION {[1..k -> 1..n] : k \in 1..n} : Sum(bs) = n}

\* block_indices of block b (0-based) of the grouping bs.
block_indices(bs, b) ==
    LET first == Sum(SubSeq(bs, 1, b))
    IN first..(first + bs[b + 1] - 1)

\* translate_srt_file_with_callbacks, lines 147-218, and
\* translate_subtitles_in_blocks, lines 175-187.  A missing file, content
\* that validate_srt refuses and a file without subtitles return at once.
srt_open ==
    /\ pc = "dispatch"
    /\ config.file_type = "srt"
    /\ config.has_path
    /\ IF ~config.input_exists
       THEN /\ pc' = "final_check"
            /\ UNCHANGED <<stats, total, completed_count, failed_count,
                           block_idx, blocks, translations>>
       ELSE \E n \in 1..MaxSubtitles :
              IF ~config.well_formed
              THEN /\ pc' = "final_check"
                   /\ UNCHANGED <<stats, total, completed_count, failed_count,
                                  block_idx, blocks, translations>>
              ELSE \E bs \in Groupings(n) :
                     /\ stats' = [stats EXCEPT !.total_subtitles = n,
                                               !.completed_subtitles = 0,
                                               !.failed_subtitles = 0]
                     /\ blocks' = bs
                     /\ total' = Len(bs)
                     /\ block_idx' = 0
                     /\ completed_count' = 0
                     /\ failed_count' = 0
                     /\ translations' = NoTranslations
                     /\ pc' = "sb_poll"
    /\ UNCHANGED <<status, progress, interrupted, observed, config, i, attempt,
                   main_content, full_raw_response, parts, last_successful_llm_context, epubVars,
                   retry_count, pp_retry_count, output_file, httpVars,
                   after_flag>>
    /\ UNCHANGED fnVars

\* translate_subtitles_in_blocks, lines 190-197: the poll point at the head
\* of the block loop.
sb_poll ==
    /\ pc = "sb_poll"
    /\ IF should_interrupt_current_task
       THEN observed' = TRUE /\ pc' = "srt_save"
       ELSE observed' = observed /\ pc' = "sb_progress"
    /\ UNCHANGED <<status, progress, interrupted, stats, config, loopVars,
                   output_file, httpVars, after_flag>>
    /\ UNCHANGED fnVars

\* Lines 199-230: (block_idx / total_blocks) * 100, the prompt, and the
\* start of the retry loop.
sb_progress ==
    /\ pc = "sb_progress"
    /\ progress' = _update_translation_progress_callback(chunk_progress(block_idx, total))
    /\ retry_count' = 0
    /\ attempt' = 0
    /\ pc' = "sb_llm"
    /\ UNCHANGED <<status, interrupted, stats, observed, config, total, i,
                   main_content, full_raw_response, completed_count,
                   failed_count, parts, last_successful_llm_context, epubVars, block_idx, blocks,
                   pp_retry_count, translations, output_file, httpVars,
                   after_flag>>
    /\ UNCHANGED fnVars

sb_llm ==
    /\ make_request("sb_llm", "sb_response")
    /\ UNCHANGED <<jobVars, total, i, main_content, completed_count,
                   failed_count, parts, last_successful_llm_context, epubVars, srtVars, output_file, httpVars,
                   after_flag>>
    /\ UNCHANGED fnVars

\* Lines 389-406: a block whose answer held every expected tag.  keys are
\* the indices extract_block_translations returned, whatever block they
\* belong to.
block_translated(expected, keys) ==
    LET c == completed_count + Cardinality(keys)
        f == failed_count + Cardinality(expected \ keys)
    IN /\ translations' = [k \in Indices |->
                              IF k \in keys THEN "translated"
                              ELSE IF k \in expected THEN "original"
                              ELSE translations[k]]
       /\ completed_count' = c
       /\ failed_count' = f
       /\ stats' = [stats EXCEPT !.completed_subtitles = c,
                                 !.failed_subtitles = f,
                                 !.total_subtitles = Sum(blocks)]

\* Lines 414-427: a block that could not be translated keeps its texts.
block_failed(expected) ==
    LET f == failed_count + Cardinality(expected)
    IN /\ translations' = [k \in Indices |->
                              IF k \in expected THEN "original"
                              ELSE translations[k]]
       /\ failed_count' = f
       /\ completed_count' = completed_count
       /\ stats' = [stats EXCEPT !.completed_subtitles = completed_count,
                                 !.failed_subtitles = f,
                                 !.total_subtitles = Sum(blocks)]

\* Lines 249-314 and 316-436: what the retry loop does with the answer of
\* make_request, and, once the loop is left, the block's translations,
\* counts and statistics.  found are the [index] tags of the answer, keys
\* those that extract_block_translations maps to a text.
sb_response ==
    /\ pc = "sb_response"
    /\ LET expected == block_indices(blocks, block_idx)
           next == IF block_idx + 1 < total THEN "sb_poll" ELSE "srt_save"
           retry == /\ retry_count' = retry_count + 1
                    /\ pc' = "sb_llm"
                    /\ UNCHANGED <<stats, completed_count, failed_count,
                                   translations, block_idx>>
           give_up == /\ block_failed(expected)
                      /\ block_idx' = block_idx + 1
                      /\ pc' = next
                      /\ retry_count' = 0
       IN IF full_raw_response = "tagged"
          THEN \E found \in SUBSET Indices : \E keys \in SUBSET found :
                 IF expected \ found # {}
                 THEN IF retry_count < max_retries - 1 THEN retry ELSE give_up
                 ELSE IF config.enable_post_processing
                 THEN /\ pc' = "sb_post"
                      /\ UNCHANGED <<stats, completed_count, failed_count,
                                     translations, block_idx, retry_count>>
                 ELSE /\ block_translated(expected, keys)
                      /\ block_idx' = block_idx + 1
                      /\ pc' = next
                      /\ retry_count' = 0
          ELSE IF retry_count < max_retries - 1 THEN retry ELSE give_up
    /\ full_raw_response' = "none"
    /\ pp_retry_count' = 0
    /\ UNCHANGED <<status, progress, interrupted, observed, config, total, i,
                   attempt, main_content, parts, last_successful_llm_context, epubVars, blocks, output_file,
                   httpVars, after_flag>>
    /\ UNCHANGED fnVars

\* Line 369 without its increment.
next_pp_retry_count_stays(count) == count

\* Line 369: pp_retry_count += 1.
next_pp_retry_count(count) == count + 1

\* Lines 335-352: one turn of the post-processing loop calls
\* post_process_translation, which sends the block to the LLM.
sb_post ==
    /\ make_request("sb_post", "sb_post_response")
    /\ UNCHANGED <<jobVars, total, i, main_content, completed_count,
                   failed_count, parts, last_successful_llm_context, epubVars, srtVars, output_file, httpVars,
                   after_flag>>
    /\ UNCHANGED fnVars

\* Lines 354-412: post_process_translation returns the block as it was
\* unless the answer held a text between the output markers; a text that
\* lacks an expected tag is asked for again while pp_retry_count <
\* max_pp_retries - 1 and given up for the translation after that.  The
\* block's translations are then extracted from the text that was kept,
\* which holds every expected tag and any other; keys are the indices that
\* extract_block_translations maps to a text.
sb_post_response ==
    /\ pc = "sb_post_response"
    /\ LET expected == block_indices(blocks, block_idx)
           next == IF block_idx + 1 < total THEN "sb_poll" ELSE "srt_save"
           extract == \E keys \in SUBSET Indices :
                        /\ block_translated(expected, keys)
                        /\ block_idx' = block_idx + 1
                        /\ pc' = next
                        /\ pp_retry_count' = 0
       IN \E missing_tags \in BOOLEAN :
             /\ missing_tags => full_raw_response = "tagged"
             /\ IF missing_tags /\ pp_retry_count < max_pp_retries - 1
                THEN /\ pp_retry_count' = next_pp_retry_count(pp_retry_count)
                     /\ pc' = "sb_post"
                     /\ UNCHANGED <<stats, completed_count, failed_count,
                                    translations, block_idx>>
                ELSE extract
    /\ full_raw_response' = "none"
    /\ UNCHANGED <<status, progress, interrupted, observed, config, total, i,
                   attempt, main_content, parts, last_successful_llm_context, epubVars, blocks, retry_count,
                   output_file, httpVars, after_flag>>
    /\ UNCHANGED fnVars

\* translate_srt_file_with_callbacks, lines 233-256:
\* update_translated_subtitles takes the translations whose index is a
\* subtitle of the file; the write of the output logs its failure only.
srt_save ==
    /\ pc = "srt_save"
    /\ output_file' =
          IF config.output_writable
          THEN [exists |-> TRUE,
                units |-> Cardinality({k \in Indices :
                             k < Sum(blocks) /\ translations[k] = "translated"})]
          ELSE output_file
    /\ pc' = "srt_progress100"
    /\ UNCHANGED <<jobVars, loopVars, httpVars, after_flag>>
    /\ UNCHANGED fnVars

\* Lines 258-259.
srt_progress100 ==
    /\ pc = "srt_progress100"
    /\ progress' = _update_translation_progress_callback(Percent(100))
    /\ pc' = "final_check"
    /\ UNCHANGED <<status, interrupted, stats, observed, config, loopVars,
                   output_file, httpVars, after_flag>>
    /\ UNCHANGED fnVars

\* ---- the worker: the end of perform_actual_translation ------------------

\* Lines 224-236: the read of the flag that picks the final status.
perform_final_check ==
    /\ pc = "final_check"
    /\ pc' = IF interrupted THEN "set_interrupted" ELSE "set_completed"
    /\ UNCHANGED <<jobVars, loopVars, output_file, httpVars, after_flag>>
    /\ UNCHANGED fnVars

\* Lines 237-240.
perform_set_interrupted ==
    /\ pc = "set_interrupted"
    /\ status' = "interrupted"
    /\ pc' = "done"
    /\ UNCHANGED <<progress, interrupted, stats, observed, config, loopVars,
                   output_file, httpVars, after_flag>>
    /\ UNCHANGED fnVars

\* Lines 242-245.
perform_set_completed ==
    /\ pc = "set_completed"
    /\ IF status # "error"
       THEN status' = "completed" /\ pc' = "final_progress"
       ELSE status' = status /\ pc' = "done"
    /\ UNCHANGED <<progress, interrupted, stats, observed, config, loopVars,
                   output_file, httpVars, after_flag>>
    /\ UNCHANGED fnVars

\* Lines 246-247.
perform_final_progress ==
    /\ pc = "final_progress"
    /\ progress' = _update_translation_progress_callback(Percent(100))
    /\ pc' = "done"
    /\ UNCHANGED <<status, interrupted, stats, observed, config, loopVars,
                   output_file, httpVars, after_flag>>
    /\ UNCHANGED fnVars

\* Lines 263-281: the handler of an exception of the pipeline.
perform_except ==
    /\ pc = "except"
    /\ status' = "error"
    /\ pc' = "done"
    /\ UNCHANGED <<progress, interrupted, stats, observed, config, loopVars,
                   output_file, httpVars, after_flag>>
    /\ UNCHANGED fnVars

Worker ==
    \/ perform_start
    \/ perform_dispatch_raise
    \/ txt_open
    \/ tc_poll
    \/ tc_progress
    \/ tc_request
    \/ tc_llm
    \/ tc_result
    \/ txt_progress100
    \/ txt_save
    \/ epub_open
    \/ ep1_file
    \/ ep1_done
    \/ ep2_poll
    \/ ep2_progress
    \/ ec_poll
    \/ ec_request
    \/ ec_llm
    \/ ec_result
    \/ ep2_job_done
    \/ epub_progress100
    \/ epub_save
    \/ srt_open
    \/ sb_poll
    \/ sb_progress
    \/ sb_llm
    \/ sb_response
    \/ sb_post
    \/ sb_post_response
    \/ srt_save
    \/ srt_progress100
    \/ perform_final_check
    \/ perform_set_interrupted
    \/ perform_set_completed
    \/ perform_final_progress
    \/ perform_except

Next ==
    \/ start_translation_request
    \/ interrupt_translation_job
    \/ interrupt_set_flag
    \/ Worker

Spec == Init /\ [][Next]_vars

\* The worker is a thread of its own and every HTTP request to the LLM
\* returns or times out: no step of the worker is postponed for ever.
FairSpec == Spec /\ WF_vars(Worker)

\* ---- translate_chunks called on a chunk list of the caller's own ---------

\* A call of translate_chunks with its callbacks, on 0 to MaxChunks chunks of
\* any main content; with no chunk the loop body never runs.
ChunksInit ==
    /\ status = "running"
    /\ progress = 0
    /\ interrupted = FALSE
    /\ stats = NoStats
    /\ observed = FALSE
    /\ config = [file_type |-> "chunks", has_path |-> FALSE,
                 input_exists |-> TRUE, output_writable |-> TRUE,
                 well_formed |-> TRUE, enable_post_processing |-> FALSE]
    /\ \E n \in 0..MaxChunks :
          /\ total = n
          /\ pc = IF n = 0 THEN "txt_progress100" ELSE "tc_poll"
    /\ i = 0
    /\ attempt = 0
    /\ main_content = "none"
    /\ full_raw_response = "none"
    /\ completed_count = 0
    /\ failed_count = 0
    /\ parts = <<>>
    /\ last_successful_llm_context = <<>>
    /\ job_idx = 0
    /\ sub_total = 0
    /\ translated_parts = <<>>
    /\ jobs = <<>>
    /\ block_idx = 0
    /\ blocks = <<>>
    /\ retry_count = 0
    /\ pp_retry_count = 0
    /\ translations = NoTranslations
    /\ output_file = NoFile
    /\ ipc = "idle"
    /\ nreq = 0
    /\ resp = 0
    /\ after_flag = [requests |-> 0, chunks |-> 0]
    /\ NoCalls

\* The call runs to its return (pc = "txt_progress100"); the interrupt route
\* can set the flag its check_interruption_callback reads.
ChunksNext ==
    \/ interrupt_translation_job
    \/ interrupt_set_flag
    \/ tc_poll
    \/ tc_progress
    \/ tc_request
    \/ tc_llm
    \/ tc_result

ChunksSpec == ChunksInit /\ [][ChunksNext]_vars

\* ---- one call of make_request / generate on its own ----------------------

\* LLMClient.make_request and the generate of the three providers run the
\* same attempt loop.
Clients == {"LLMClient", "OllamaProvider", "OpenAICompatibleProvider",
            "GeminiProvider"}

\* The except clauses of the loop: httpx.TimeoutException,
\* httpx.HTTPStatusError (raise_for_status), json.JSONDecodeError, Exception.
HttpErrors == {"timeout", "status", "json", "other"}

\* The providers await asyncio.sleep(RETRY_DELAY_SECONDS) before the next
\* attempt (llm_providers.py 104, 110, 116, 122); LLMClient.make_request
\* continues at once (llm_client.py 65-67).
sleeps(c) == c # "LLMClient"

RequestInit ==
    /\ JobIdle("post")
    /\ client \in Clients
    /\ http_log = <<>>
    /\ NoTags
    /\ NoValidation
    /\ NoPostProcess
    /\ NoChunker
    /\ NoOtherCalls

\* One pass of the loop: the POST, its outcome, and the sleep if there is one.
generate ==
    /\ pc = "post"
    /\ \E result \in HttpErrors \cup (HttpOutcomes \ {"error"}) :
          /\ attempt_outcome(IF result \in HttpErrors THEN "error" ELSE result,
                             "returned")
          /\ http_log' = http_log \o <<result>> \o
                            (IF pc' = "post" /\ sleeps(client)
                             THEN <<"sleep">> ELSE <<>>)
    /\ UNCHANGED <<status, progress, interrupted, stats, observed, config,
                   total, i, main_content, completed_count, failed_count,
                   parts, last_successful_llm_context, epubVars, srtVars,
                   output_file, httpVars, after_flag, client, tagVars, validVars, postVars, chunkVars,
                   otherVars>>

RequestSpec == RequestInit /\ [][generate]_vars

\* ---- TagPreserver.preserve_tags and restore_tags on their own ------------

\* f"{self.placeholder_prefix}{self.counter}{self.placeholder_suffix}": the
\* string TAGn between the brackets U+27E6 and U+27E7, one symbol here.
placeholder(n) == [TAG |-> n, c |-> ""]

\* A character of the text, one symbol.
char(c) == [TAG |-> -1, c |-> c]

\* The symbols a text is made of: the two characters the pattern names, any
\* other character, and a placeholder written in the text itself.
Alphabet == {char("<"), char(">"), char("a"), placeholder(0)}

Texts == UNION {[1..k -> Alphabet] : k \in 0..MaxLen}

\* Where a match of r'<[^>]+>' that starts at pos ends; 0 when there is none.
\* [^>]+ takes every symbol up to the first ">" and needs at least one.
tag_end(t, pos) ==
    LET closers == {j \in pos + 1..Len(t) : t[j] = char(">")}
    IN  IF t[pos] # char("<") \/ closers = {} THEN 0
        ELSE LET j == CHOOSE j \in closers : \A k \in closers : j <= k
             IN  IF j > pos + 1 THEN j ELSE 0

\* re.sub(tag_pattern, replace_tag, text) from pos on; acc holds the text
\* produced and the tags replaced so far, self.counter being their number.
RECURSIVE sub_tags(_, _, _)
sub_tags(t, pos, acc) ==
    IF pos > Len(t) THEN acc
    ELSE IF tag_end(t, pos) # 0
         THEN sub_tags(t, tag_end(t, pos) + 1,
                       [processed_text |->
                            Append(acc.processed_text,
                                   placeholder(Len(acc.tag_map))),
                        tag_map |->
                            Append(acc.tag_map, SubSeq(t, pos, tag_end(t, pos)))])
         ELSE sub_tags(t, pos + 1,
                       [processed_text |-> Append(acc.processed_text, t[pos]),
                        tag_map |-> acc.tag_map])

\* str.replace(placeholder, tag): every occurrence, in one pass.
RECURSIVE replace(_, _, _)
replace(t, p, tag) ==
    IF t = <<>> THEN <<>>
    ELSE (IF Head(t) = p THEN tag ELSE <<Head(t)>>) \o replace(Tail(t), p, tag)

\* The loop of restore_tags over the placeholders n - 1, ..., 0 of the map.
RECURSIVE restore_from(_, _, _)
restore_from(t, map, n) ==
    IF n = 0 THEN t
    ELSE restore_from(replace(t, placeholder(n - 1), map[n]), map, n - 1)

TagInit ==
    /\ JobIdle("preserve")
    /\ client = "none"
    /\ http_log = <<>>
    /\ text \in Texts
    /\ processed_text = <<>>
    /\ tag_map = <<>>
    /\ restored_text = <<>>
    /\ NoValidation
    /\ NoPostProcess
    /\ NoChunker
    /\ NoOtherCalls

preserve_tags ==
    /\ pc = "preserve"
    /\ LET result == sub_tags(text, 1, [processed_text |-> <<>>, tag_map |-> <<>>])
       IN  /\ processed_text' = result.processed_text
           /\ tag_map' = result.tag_map
    /\ pc' = "restore"
    /\ UNCHANGED <<jobVars, loopVars, output_file, httpVars, after_flag,
                   reqVars, text, restored_text, validVars, postVars,
                   chunkVars,
                   otherVars>>

restore_tags ==
    /\ pc = "restore"
    /\ restored_text' = restore_from(processed_text, tag_map, Len(tag_map))
    /\ pc' = "restored"
    /\ UNCHANGED <<jobVars, loopVars, output_file, httpVars, after_flag,
                   reqVars, text, processed_text, tag_map, validVars, postVars,
                   chunkVars,
                   otherVars>>

TagNext == preserve_tags \/ restore_tags

TagSpec == TagInit /\ [][TagNext]_vars

\* ---- TagPreserver.validate_placeholders and fix_mutated_placeholders -----

\* The near-forms of a placeholder: [[TAGn]], [TAGn], {TAGn}, <TAGn> and
\* TAGn with no bracket.
Forms == {"[[", "[", "{", "<", "bare"}

\* Placeholder n written in the near-form f, one symbol.
near(n, f) == [TAG |-> n, c |-> f]

\* A tag map of m placeholders; the claims look at its keys only.
tag_map_of(m) == [n \in 1..m |-> <<char("<"), char("a"), char(">")>>]

keys(map) == {n - 1 : n \in DOMAIN map}

Range(t) == {t[k] : k \in DOMAIN t}

\* The texts an LLM can answer for a map of m placeholders.
Answers(m) ==
    UNION {[1..k -> {char("a")} \cup {placeholder(n) : n \in 0..m - 1}
                      \cup {near(n, f) : n \in 0..m - 1, f \in Forms}]
           : k \in 0..MaxText}

\* fix_mutated_placeholders that leaves the curly form as it is.
fix_mutated_keep_curly(t, mutated) ==
    [k \in DOMAIN t |->
        IF t[k].TAG \in mutated /\ t[k].c \in Forms \ {"{"}
        THEN placeholder(t[k].TAG) ELSE t[k]]

\* validate_placeholders: a placeholder is missing when its exact form is
\* not in the text, mutated when one of its near-forms is.
validate(t, map) ==
    LET missing == {n \in keys(map) : placeholder(n) \notin Range(t)}
        mutated == {n \in keys(map) : \E f \in Forms : near(n, f) \in Range(t)}
    IN  [is_valid |-> missing = {} /\ mutated = {},
         missing |-> missing, mutated |-> mutated]

\* fix_mutated_placeholders: each near-form of a listed placeholder goes
\* back to its exact form.
fix_mutated(t, mutated) ==
    [k \in DOMAIN t |->
        IF t[k].TAG \in mutated /\ t[k].c \in Forms
        THEN placeholder(t[k].TAG) ELSE t[k]]

ValidateInit ==
    /\ JobIdle("validate")
    /\ client = "none"
    /\ http_log = <<>>
    /\ \E m \in 1..MaxTags :
          /\ tag_map = tag_map_of(m)
          /\ text \in Answers(m)
    /\ processed_text = <<>>
    /\ restored_text = <<>>
    /\ NoValidation
    /\ NoPostProcess
    /\ NoChunker
    /\ NoOtherCalls

\* The first call on the text, the second on the text that was fixed.
validate_placeholders ==
    /\ pc \in {"validate", "revalidate"}
    /\ validation' = Append(validation,
                            validate(IF pc = "validate" THEN text
                                     ELSE fixed_text, tag_map))
    /\ pc' = IF pc = "validate" /\ validation'[1].mutated # {} THEN "fix"
             ELSE "validated"
    /\ UNCHANGED <<jobVars, loopVars, output_file, httpVars, after_flag,
                   reqVars, tagVars, fixed_text, postVars, chunkVars,
                   otherVars>>

fix_mutated_placeholders ==
    /\ pc = "fix"
    /\ fixed_text' = fix_mutated(text, validation[1].mutated)
    /\ pc' = "revalidate"
    /\ UNCHANGED <<jobVars, loopVars, output_file, httpVars, after_flag,
                   reqVars, tagVars, validation, postVars, chunkVars,
                   otherVars>>

ValidateNext == validate_placeholders \/ fix_mutated_placeholders

ValidateSpec == ValidateInit /\ [][ValidateNext]_vars

\* ---- post_process_translation on its own ---------------------------------

\* The texts of a call for a map of m placeholders: what was translated
\* and what the LLM answers between its tags.
Translations(m) ==
    UNION {[1..k -> {char("a"), char(" ")}
                      \cup {placeholder(n) : n \in 0..m - 1}
                      \cup {near(n, "[[") : n \in 0..m - 1}]
           : k \in 0..MaxText}

\* str.strip() as far as the symbols go.
RECURSIVE lstrip(_)
lstrip(t) ==
    IF t # <<>> /\ Head(t) = char(" ") THEN lstrip(Tail(t)) ELSE t

RECURSIVE rstrip(_)
rstrip(t) ==
    IF t # <<>> /\ t[Len(t)] = char(" ") THEN rstrip(SubSeq(t, 1, Len(t) - 1))
    ELSE t

strip(t) == rstrip(lstrip(t))

\* re.sub(r' +', ' ', text)
RECURSIVE single_spaces(_)
single_spaces(t) ==
    IF Len(t) < 2 THEN t
    ELSE IF t[1] = char(" ") /\ t[2] = char(" ") THEN single_spaces(Tail(t))
    ELSE <<Head(t)>> \o single_spaces(Tail(t))

\* clean_translated_text: RemoveExtraWhitespaceRule; the texts hold no HTML
\* entity for HTMLEntityCleanupRule and no punctuation.
clean_translated_text(t) == strip(single_spaces(t))

\* len(translated_text.strip()) <= 1: a placeholder is seven characters or
\* more.
very_short(t) == strip(t) \in {<<>>, <<char("a")>>}

\* What client.make_request and client.extract_translation give: no
\* response, a response without the tags, or the text between the tags.
Extractions(m) ==
    {[response |-> r, text |-> <<>>] : r \in {"none", "no_tags"}}
        \cup {[response |-> "tagged", text |-> t] : t \in Translations(m)}

PostInit ==
    /\ JobIdle("post_process")
    /\ client = "none"
    /\ http_log = <<>>
    /\ \E m \in 1..MaxTags :
          /\ tag_map = tag_map_of(m)
          /\ text \in {t \in Translations(m) :
                          \/ very_short(t)
                          \/ \A n \in 0..m - 1 : placeholder(n) \in Range(t)}
    /\ processed_text = <<>>
    /\ restored_text = <<>>
    /\ NoValidation
    /\ NoPostProcess
    /\ NoChunker
    /\ NoOtherCalls

\* Lines 122-181 of post_process_translation: up to the return, or up to
\* the request of the retry.
post_process_translation ==
    /\ pc = "post_process"
    /\ IF very_short(text)
       THEN /\ returned' = text
            /\ pc' = "post_processed"
            /\ UNCHANGED improved_text
       ELSE \E answer \in Extractions(Len(tag_map)) :
               IF answer.text = <<>>
               THEN /\ returned' = text
                    /\ pc' = "post_processed"
                    /\ UNCHANGED improved_text
               ELSE LET first == validate(answer.text, tag_map)
                        fixed == IF ~first.is_valid /\ first.mutated # {}
                                 THEN fix_mutated(answer.text, first.mutated)
                                 ELSE answer.text
                        second == validate(fixed, tag_map)
                    IN  IF ~second.is_valid /\ second.missing # {}
                        THEN /\ improved_text' = fixed
                             /\ pc' = "retry"
                             /\ UNCHANGED returned
                        ELSE /\ returned' = clean_translated_text(fixed)
                             /\ pc' = "post_processed"
                             /\ UNCHANGED improved_text
    /\ UNCHANGED <<jobVars, loopVars, output_file, httpVars, after_flag,
                   reqVars, tagVars, validVars, chunkVars,
                   otherVars>>

\* Lines 196-217: the answer of the retry and the return.
post_process_retry ==
    /\ pc = "retry"
    /\ \E answer \in Extractions(Len(tag_map)) :
          IF answer.text = <<>>
          THEN returned' = clean_translated_text(improved_text)
          ELSE LET retry == validate(answer.text, tag_map)
               IN  IF retry.is_valid \/ retry.missing = {}
                   THEN returned' = clean_translated_text(answer.text)
                   ELSE returned' = text
    /\ improved_text' = <<>>
    /\ pc' = "post_processed"
    /\ UNCHANGED <<jobVars, loopVars, output_file, httpVars, after_flag,
                   reqVars, tagVars, validVars, chunkVars,
                   otherVars>>

PostNext == post_process_translation \/ post_process_retry

PostSpec == PostInit /\ [][PostNext]_vars

\* ---- split_text_into_chunks_with_context on its own ----------------------

\* A logical line: whitespace only, text that ends with one of
\* SENTENCE_TERMINATORS, or text that does not.
LineKinds == {"blank", "ends", "open"}

Min(a, b) == IF a < b THEN a ELSE b

Max(a, b) == IF a > b THEN a ELSE b

\* line_content_stripped and line_content_stripped.endswith(...), for the
\* line of 0-based index idx.
ends_sentence(lines, idx) == lines[idx + 1] = "ends"

get_adjusted_start_index(lines, intended_start_idx, max_look_back_lines) ==
    LET found == {idx \in Max(0, intended_start_idx - max_look_back_lines)
                           ..intended_start_idx - 1 : ends_sentence(lines, idx)}
    IN  IF intended_start_idx = 0 THEN 0
        ELSE IF found # {} THEN MaxOf(found) + 1
        ELSE IF intended_start_idx <= max_look_back_lines THEN 0
        ELSE intended_start_idx

get_adjusted_end_index(lines, intended_end_idx, max_look_forward_lines) ==
    LET start_search_fwd == Max(0, intended_end_idx - 1)
        found == {idx \in start_search_fwd
                           ..Min(Len(lines), start_search_fwd
                                              + max_look_forward_lines) - 1 :
                     ends_sentence(lines, idx)}
    IN  IF intended_end_idx >= Len(lines) THEN Len(lines)
        ELSE IF found # {}
             THEN (CHOOSE idx \in found : \A o \in found : idx <= o) + 1
        ELSE IF intended_end_idx + max_look_forward_lines >= Len(lines)
             THEN Len(lines)
        ELSE intended_end_idx

\* all_lines[first:last] as a range of 0-based indices, last excluded.
span(first, last) == [first |-> first, last |-> Max(first, last)]

lines_of(sp) == sp.first..sp.last - 1

\* The cursor that stays where the iteration began.
next_position_stays(final_main_end_index, initial_main_start_index) ==
    initial_main_start_index

\* The cursor that passes over the line after the main part.
next_position_skips(final_main_end_index, initial_main_start_index) ==
    final_main_end_index + 1

\* Lines 158-160 and 168-170: the cursor after a chunk.
next_position(final_main_end_index, initial_main_start_index) ==
    IF final_main_end_index <= initial_main_start_index
    THEN initial_main_start_index + 1
    ELSE final_main_end_index

\* Lines 103-125: the main part of the chunk that begins at the cursor.  It
\* is never empty, so the tests of lines 127-133 always fail.
main_part(lines, target, position) ==
    LET look_back_main_limit == Max(1, target \div 4)
        look_forward_main_limit == Max(1, target \div 4)
        initial_main_start_index == position
        initial_main_end_index == Min(position + target, Len(lines))
        adjusted_start == get_adjusted_start_index(lines, initial_main_start_index,
                                                   look_back_main_limit)
        adjusted_end == get_adjusted_end_index(lines, initial_main_end_index,
                                               look_forward_main_limit)
        swapped == adjusted_start > adjusted_end
        start1 == IF swapped THEN initial_main_start_index ELSE adjusted_start
        end1 == IF swapped THEN initial_main_end_index ELSE adjusted_end
    IN  IF end1 > start1 THEN [first |-> start1, last |-> end1]
        ELSE IF initial_main_end_index > initial_main_start_index
             THEN [first |-> initial_main_start_index,
                   last |-> initial_main_end_index]
        ELSE [first |-> initial_main_start_index, last |-> Len(lines)]

\* Lines 135-156: the context before and after a main part.
context_before(lines, target, main) ==
    LET look_back_context_limit == Max(1, target \div 8)
        intended == Max(0, main.first - target \div 4)
    IN  span(get_adjusted_start_index(lines, intended, look_back_context_limit),
             main.first)

context_after(lines, target, main) ==
    LET look_forward_context_limit == Max(1, target \div 8)
        intended == Min(Len(lines), main.last + target \div 4)
    IN  span(main.last,
             get_adjusted_end_index(lines, intended, look_forward_context_limit))

ChunkerInit ==
    /\ JobIdle("split")
    /\ client = "none"
    /\ http_log = <<>>
    /\ NoTags
    /\ NoValidation
    /\ NoPostProcess
    /\ all_lines \in UNION {[1..k -> LineKinds] : k \in 0..MaxLines}
    /\ main_lines_per_chunk_target \in 1..MaxTarget
    /\ current_position = 0
    /\ structured_chunks = <<>>
    /\ NoOtherCalls

\* Lines 92-101: no line, no chunk.
split_text_into_chunks_with_context ==
    /\ pc = "split"
    /\ pc' = IF all_lines = <<>> THEN "chunked" ELSE "chunking"
    /\ UNCHANGED <<jobVars, loopVars, output_file, httpVars, after_flag,
                   reqVars, tagVars, validVars, postVars, chunkVars,
                   otherVars>>

\* One iteration of the loop of line 102.
chunk_iteration ==
    /\ pc = "chunking"
    /\ \E main \in {main_part(all_lines, main_lines_per_chunk_target,
                              current_position)} :
           /\ structured_chunks' =
                 IF \A idx \in lines_of(main) : all_lines[idx + 1] = "blank"
                 THEN structured_chunks
                 ELSE Append(structured_chunks,
                             [context_before |->
                                  context_before(all_lines,
                                                 main_lines_per_chunk_target, main),
                              main_content |-> main,
                              context_after |->
                                  context_after(all_lines,
                                                main_lines_per_chunk_target, main)])
           /\ current_position' = next_position(main.last, current_position)
    /\ pc' = IF current_position' < Len(all_lines) THEN "chunking" ELSE "chunked"
    /\ UNCHANGED <<jobVars, loopVars, output_file, httpVars, after_flag,
                   reqVars, tagVars, validVars, postVars, all_lines,
                   main_lines_per_chunk_target, otherVars>>

ChunkerNext == split_text_into_chunks_with_context \/ chunk_iteration

\* The function runs to its return once it is called.
ChunkerSpec == ChunkerInit /\ [][ChunkerNext]_vars /\ WF_vars(ChunkerNext)

\* ---- SRTProcessor.parse_srt and reconstruct_srt on their own -------------

\* A line of an SRT content after '\r\n' and '\r' became '\n': the digits of
\* a positive number, the digit 0, a timecode line "A --> B", the same with
\* no space around the arrow, the same followed by more characters, any
\* other text, or nothing.
SrtLines == {"1", "0", "A --> B", "A-->B", "A --> B X1:0", "text", ""}

\* Line 34: lines[0].isdigit().
isdigit(line) == line \in {"1", "0"}

\* re.match(r'(\d{2}:...)\s*-->\s*(\d{2}:...)', lines[1]): a match at the
\* start of the line; what follows the second time is not looked at.
timecode_match(line) == line \in {"A --> B", "A-->B", "A --> B X1:0"}

\* content.split('\n\n') with block.strip() and 'if not block: continue':
\* the runs of lines between empty lines.
RECURSIVE split_blocks(_, _, _, _)
split_blocks(lines, k, block, found) ==
    LET closed == IF block = <<>> THEN found ELSE Append(found, block)
    IN  IF k > Len(lines) THEN closed
        ELSE IF lines[k] = ""
             THEN split_blocks(lines, k + 1, <<>>, closed)
        ELSE split_blocks(lines, k + 1, Append(block, lines[k]), found)

\* Lines 30-41: the block is read as a subtitle.
accepted(block) ==
    /\ Len(block) >= 3
    /\ isdigit(block[1])
    /\ timecode_match(block[2])

\* Lines 43-52: timecode_match.groups() are the two times alone.
subtitle_of(block) ==
    [number |-> block[1], start_time |-> "A", end_time |-> "B",
     text |-> SubSeq(block, 3, Len(block))]

RECURSIVE parse_blocks(_)
parse_blocks(found) ==
    IF found = <<>> THEN <<>>
    ELSE (IF accepted(Head(found)) THEN <<subtitle_of(Head(found))>> ELSE <<>>)
             \o parse_blocks(Tail(found))

\* Lines 80-82: number, "start --> end", text, each followed by '\n'.
timecode_line(start_time, end_time) ==
    CASE start_time = "A" /\ end_time = "B" -> "A --> B"

block_lines(subtitle) ==
    <<subtitle.number, timecode_line(subtitle.start_time, subtitle.end_time)>>
        \o subtitle.text

\* Line 86: '\n'.join(srt_content), an empty line between two blocks.
RECURSIVE join_blocks(_)
join_blocks(subs) ==
    IF subs = <<>> THEN <<>>
    ELSE IF Len(subs) = 1 THEN block_lines(Head(subs))
    ELSE block_lines(Head(subs)) \o <<"">> \o join_blocks(Tail(subs))

ParseInit ==
    /\ JobIdle("parse")
    /\ OnlyParse
    /\ srt_content \in UNION {[1..k -> SrtLines] : k \in 0..MaxSrtLines}
    /\ subtitles = <<>>
    /\ translated_srt = <<>>

parse_srt ==
    /\ pc = "parse"
    /\ subtitles' = parse_blocks(split_blocks(srt_content, 1, <<>>, <<>>))
    /\ pc' = "reconstruct"
    /\ UNCHANGED <<parseFrame, srt_content, translated_srt>>

reconstruct_srt ==
    /\ pc = "reconstruct"
    /\ translated_srt' = join_blocks(subtitles)
    /\ pc' = "reconstructed"
    /\ UNCHANGED <<parseFrame, srt_content, subtitles>>

ParseNext == parse_srt \/ reconstruct_srt

ParseSpec == ParseInit /\ [][ParseNext]_vars

\* ---- SRTProcessor.group_subtitles_for_translation on its own -------------

\* A subtitle list: the number of each subtitle and len(text.strip()), 0
\* for a text of whitespace only.
SubtitleLists ==
    UNION {{[k \in 1..n |-> [number |-> k, text_length |-> lengths[k]]] :
               lengths \in [1..n -> 0..MaxChars + 1]} : n \in 0..MaxGroup}

\* Line 152 with the test of the characters left out.
would_exceed_chars_never(count, text_length, max_chars) == FALSE

\* Line 151: len(current_block) >= lines_per_block.
would_exceed_lines(block, per_block) == Len(block) >= per_block

\* Line 152: current_char_count + text_length > max_chars_per_block.
would_exceed_chars(count, text_length, max_chars) ==
    count + text_length > max_chars

GroupInit ==
    /\ JobIdle("group")
    /\ OnlyGroup
    /\ srt_subtitles \in SubtitleLists
    /\ lines_per_block \in 1..MaxPerBlock
    /\ max_chars_per_block \in 1..MaxChars
    /\ subtitle_idx = 0
    /\ current_block = <<>>
    /\ current_char_count = 0
    /\ grouped_blocks = <<>>

\* Lines 140-159: one subtitle of the loop.
group_subtitle ==
    /\ pc = "group"
    /\ subtitle_idx < Len(srt_subtitles)
    /\ \E subtitle \in {srt_subtitles[subtitle_idx + 1]} :
          IF subtitle.text_length = 0
          THEN /\ current_block' = IF current_block # <<>>
                                   THEN Append(current_block, subtitle)
                                   ELSE current_block
               /\ UNCHANGED <<current_char_count, grouped_blocks>>
          ELSE IF /\ current_block # <<>>
                  /\ \/ would_exceed_lines(current_block, lines_per_block)
                     \/ would_exceed_chars(current_char_count,
                                           subtitle.text_length,
                                           max_chars_per_block)
               THEN /\ grouped_blocks' = Append(grouped_blocks, current_block)
                    /\ current_block' = <<subtitle>>
                    /\ current_char_count' = subtitle.text_length
               ELSE /\ current_block' = Append(current_block, subtitle)
                    /\ current_char_count' =
                           current_char_count + subtitle.text_length
                    /\ UNCHANGED grouped_blocks
    /\ subtitle_idx' = subtitle_idx + 1
    /\ UNCHANGED <<groupFrame, pc, srt_subtitles, lines_per_block,
                   max_chars_per_block>>

\* Lines 161-165: the last block and the return.
group_subtitles_for_translation ==
    /\ pc = "group"
    /\ subtitle_idx = Len(srt_subtitles)
    /\ grouped_blocks' = IF current_block # <<>>
                         THEN Append(grouped_blocks, current_block)
                         ELSE grouped_blocks
    /\ current_block' = <<>>
    /\ current_char_count' = 0
    /\ pc' = "grouped"
    /\ UNCHANGED <<groupFrame, srt_subtitles, lines_per_block,
                   max_chars_per_block, subtitle_idx>>

GroupNext == group_subtitle \/ group_subtitles_for_translation

GroupSpec == GroupInit /\ [][GroupNext]_vars

\* ---- the retry loop of a block of translate_subtitles_in_blocks ----------

\* What a call of make_request and extract_translation can come to: no
\* response, an exception, a response without the output markers (or with
\* nothing between them), or a text with the [index] tags found.
BlockResponses ==
    {[kind |-> k, found |-> {}] : k \in {"none", "error", "unmarked"}}
        \cup {[kind |-> "tagged", found |-> f] : f \in SUBSET Indices}

\* translated_block_text = None.
NoBlockText == [text |-> FALSE, found |-> {}]

\* Lines 277 and 303-312 with a retry after the last attempt too.
may_retry_always(count) == TRUE

\* Lines 277, 303, 309 and 318: retry_count < max_retries - 1.
may_retry(count) == count < max_retries - 1

\* Lines 215-229: the prompt and the start of the loop.
BlockInit ==
    /\ JobIdle("block")
    /\ OnlyBlock
    /\ srt_block_indices \in SUBSET Indices \ {{}}
    /\ srt_prompt = "plain"
    /\ srt_retry_count = 0
    /\ srt_responses = <<>>
    /\ translated_block_text = NoBlockText
    /\ srt_translations = NoTranslations
    /\ srt_failed_count = 0

\* Lines 231-314: one turn of the while loop.
block_attempt ==
    /\ pc = "block"
    /\ srt_retry_count < max_retries
    /\ \E response \in BlockResponses :
          /\ srt_responses' = Append(srt_responses, response)
          /\ IF response.kind = "tagged"
                /\ srt_block_indices \subseteq response.found
             THEN /\ translated_block_text' =
                         [text |-> TRUE, found |-> response.found]
                  /\ pc' = "block_left"
                  /\ UNCHANGED <<srt_retry_count, srt_prompt>>
             ELSE IF may_retry(srt_retry_count)
             THEN /\ translated_block_text' =
                         IF response.kind = "tagged"
                         THEN [text |-> TRUE, found |-> response.found]
                         ELSE NoBlockText
                  /\ srt_prompt' = IF response.kind = "tagged"
                                   THEN "enhanced" ELSE srt_prompt
                  /\ srt_retry_count' = srt_retry_count + 1
                  /\ pc' = "block"
             ELSE /\ translated_block_text' = NoBlockText
                  /\ pc' = "block_left"
                  /\ UNCHANGED <<srt_retry_count, srt_prompt>>
    /\ UNCHANGED <<blockFrame, srt_block_indices, srt_translations,
                   srt_failed_count>>

\* Lines 316-427: the block once the loop is left.  extracted are the indices
\* that extract_block_translations maps to a text, each of them the index of
\* a tag of the answer.
block_outcome ==
    /\ pc = "block_left"
    /\ IF translated_block_text.text
       THEN \E extracted \in SUBSET translated_block_text.found :
              /\ srt_translations' =
                    [k \in Indices |->
                        IF k \in extracted THEN "translated"
                        ELSE IF k \in srt_block_indices THEN "original"
                        ELSE srt_translations[k]]
              /\ srt_failed_count' =
                    srt_failed_count + Cardinality(srt_block_indices \ extracted)
       ELSE /\ srt_translations' =
                  [k \in Indices |->
                      IF k \in srt_block_indices THEN "original"
                      ELSE srt_translations[k]]
            /\ srt_failed_count' =
                  srt_failed_count + Cardinality(srt_block_indices)
    /\ pc' = "block_done"
    /\ UNCHANGED <<blockFrame, srt_block_indices, srt_prompt, srt_retry_count,
                   srt_responses, translated_block_text>>

BlockNext == block_attempt \/ block_outcome

BlockSpec == BlockInit /\ [][BlockNext]_vars

FairBlockSpec == BlockSpec /\ WF_vars(BlockNext)

\* ---- TranslationStateManager.get_translation on its own ------------------

\* A field of a returned dict that refers to the object of the stored job
\* (dict.copy() copies the references), and one that holds an object of its
\* own with the value val.
SharedObject == [shared |-> TRUE, val |-> 0]

OwnObject(val) == [shared |-> FALSE, val |-> val]

NestedFields == {"stats", "logs", "config"}

\* Lines 17-33: create_translation.
StoreInit ==
    /\ JobIdle("store")
    /\ OnlyStore
    /\ stored = [status |-> "queued", progress |-> 0]
    /\ nested = [stats |-> 0, logs |-> 1, config |-> 0]
    /\ snapshot = <<>>
    /\ store_call = "create_translation"

\* Lines 62-68: self._translations[translation_id].copy().
get_translation ==
    /\ pc = "store"
    /\ Len(snapshot) < MaxSnapshots
    /\ snapshot' = Append(snapshot,
                          [status |-> stored.status,
                           progress |-> stored.progress,
                           stats |-> SharedObject,
                           logs |-> SharedObject,
                           config |-> SharedObject])
    /\ store_call' = "get_translation"
    /\ UNCHANGED <<storeFrame, pc, stored, nested>>

\* Lines 36-60: update_translation with a 'stats' entry (lines 45-49), a
\* 'log' entry (lines 52-56) or fields held by value (line 59).
update_translation ==
    /\ pc = "store"
    /\ \/ /\ nested.stats < MaxWrites
          /\ nested' = [nested EXCEPT !.stats = @ + 1]
          /\ UNCHANGED stored
       \/ /\ nested.logs < MaxWrites
          /\ nested' = [nested EXCEPT !.logs = @ + 1]
          /\ UNCHANGED stored
       \/ /\ \E st \in {"running", "completed"} : \E pr \in {0, 100} :
                /\ <<st, pr>> # <<stored.status, stored.progress>>
                /\ stored' = [status |-> st, progress |-> pr]
          /\ UNCHANGED nested
    /\ store_call' = "update_translation"
    /\ UNCHANGED <<storeFrame, pc, snapshot>>

\* What a field of a returned dict reads as.
read(snap, field) ==
    IF snap[field].shared THEN nested[field] ELSE snap[field].val

\* The holder of a returned dict writes into one of its nested objects
\* (snapshot['stats'][k] = v, snapshot['logs'].append(x)): the object is the
\* one the copied reference leads to.
snapshot_write_nested ==
    /\ pc = "store"
    /\ \E n \in DOMAIN snapshot : \E field \in NestedFields :
          /\ read(snapshot[n], field) < MaxWrites
          /\ IF snapshot[n][field].shared
             THEN /\ nested' = [nested EXCEPT ![field] = @ + 1]
                  /\ UNCHANGED snapshot
             ELSE /\ snapshot' = [snapshot EXCEPT ![n][field].val = @ + 1]
                  /\ UNCHANGED nested
    /\ store_call' = "snapshot_write"
    /\ UNCHANGED <<storeFrame, pc, stored>>

\* The holder of a returned dict assigns one of its keys
\* (snapshot['status'] = x, snapshot['stats'] = {}): the dict is the
\* holder's own.
snapshot_assign ==
    /\ pc = "store"
    /\ \E n \in DOMAIN snapshot :
          \/ /\ snapshot[n].status # "changed"
             /\ snapshot' = [snapshot EXCEPT ![n].status = "changed"]
          \/ \E field \in NestedFields :
                /\ snapshot[n][field].shared
                /\ snapshot' = [snapshot EXCEPT ![n][field] = OwnObject(0)]
    /\ store_call' = "snapshot_write"
    /\ UNCHANGED <<storeFrame, pc, stored, nested>>

StoreNext ==
    \/ get_translation
    \/ update_translation
    \/ snapshot_write_nested
    \/ snapshot_assign

StoreSpec == StoreInit /\ [][StoreNext]_vars

\* ---- the submit route called by several clients --------------------------

Requests == 1..MaxRequests

Clock == 0..MaxClock

NoRecord == [status |-> "absent", request |-> 0]

\* The requests have passed the checks of lines 158-171.
SubmitInit ==
    /\ JobIdle("submit")
    /\ OnlySubmit
    /\ now_ms = 0
    /\ active_translations = [id \in Clock |-> NoRecord]
    /\ submit_pc = [r \in Requests |-> "received"]
    /\ translation_id = [r \in Requests |-> -1]

\* time.time() moves on.
tick ==
    /\ pc = "submit"
    /\ now_ms < MaxClock
    /\ now_ms' = now_ms + 1
    /\ UNCHANGED <<submitFrame, pc, active_translations, submit_pc,
                   translation_id>>

\* Line 173: translation_id = f"trans_{int(time.time() * 1000)}".
submit_id(r) ==
    /\ pc = "submit"
    /\ submit_pc[r] = "received"
    /\ translation_id' = [translation_id EXCEPT ![r] = now_ms]
    /\ submit_pc' = [submit_pc EXCEPT ![r] = "has_id"]
    /\ UNCHANGED <<submitFrame, pc, now_ms, active_translations>>

\* Lines 175-217: the config, the record in active_translations and
\* start_translation_job.
submit_register(r) ==
    /\ pc = "submit"
    /\ submit_pc[r] = "has_id"
    /\ active_translations' =
          [active_translations EXCEPT ![translation_id[r]] =
              [status |-> "queued", request |-> r]]
    /\ submit_pc' = [submit_pc EXCEPT ![r] = "answered"]
    /\ UNCHANGED <<submitFrame, pc, now_ms, translation_id>>

\* run_translation_async_wrapper: the worker of a registered job sets
\* status to running.
worker_starts(id) ==
    /\ pc = "submit"
    /\ active_translations[id].status = "queued"
    /\ active_translations' =
          [active_translations EXCEPT ![id].status = "running"]
    /\ UNCHANGED <<submitFrame, pc, now_ms, submit_pc, translation_id>>

SubmitNext ==
    \/ tick
    \/ \E r \in Requests : submit_id(r)
    \/ \E r \in Requests : submit_register(r)
    \/ \E id \in Clock : worker_starts(id)

SubmitSpec == SubmitInit /\ [][SubmitNext]_vars

\* ---- the workers of several translations and the global logger -----------

Workers == 1..MaxWorkers

\* Every translation is registered (routes.py line 201) and its thread
\* started (handlers.py lines 295-300).
LoggerInit ==
    /\ JobIdle("logger")
    /\ OnlyLogger
    /\ global_logger = 0
    /\ worker_pc = [w \in Workers |-> "started"]
    /\ worker_logger = [w \in Workers |-> 0]
    /\ record_status = [w \in Workers |-> [status |-> "queued", writer |-> 0]]
    /\ record_logs = [w \in Workers |-> <<>>]

\* handlers.py lines 56-61: status = 'running'.
worker_running(w) ==
    /\ pc = "logger"
    /\ worker_pc[w] = "started"
    /\ record_status' = [record_status EXCEPT
                            ![w] = [status |-> "running", writer |-> w]]
    /\ worker_pc' = [worker_pc EXCEPT ![w] = "setup"]
    /\ UNCHANGED <<loggerFrame, pc, global_logger, worker_logger, record_logs>>

\* unified_logger.py lines 378-391 called by setup_web_logger, lines
\* 404-412: the callbacks are kept only by the call that finds
\* _global_logger None.
get_logger(w) ==
    IF global_logger = 0 THEN w ELSE global_logger

\* handlers.py lines 69-83: logger = setup_web_logger(web_callback,
\* storage_callback), the callbacks being closures on translation_id.
worker_setup_web_logger(w) ==
    /\ pc = "logger"
    /\ worker_pc[w] = "setup"
    /\ global_logger' = get_logger(w)
    /\ worker_logger' = [worker_logger EXCEPT ![w] = get_logger(w)]
    /\ worker_pc' = [worker_pc EXCEPT ![w] = "logging"]
    /\ UNCHANGED <<loggerFrame, pc, record_status, record_logs>>

\* handlers.py lines 85-109 and unified_logger.py lines 267-313: a message
\* of the worker goes to web_callback and to storage_callback of its
\* logger, and each appends it to the logs of its translation.
worker_log(w) ==
    /\ pc = "logger"
    /\ worker_pc[w] = "logging"
    /\ Len(SelectSeq(record_logs[worker_logger[w]], LAMBDA e : e = w))
          < 2 * MaxMessages
    /\ record_logs' = [record_logs EXCEPT
                          ![worker_logger[w]] = Append(Append(@, w), w)]
    /\ UNCHANGED <<loggerFrame, pc, global_logger, worker_pc, worker_logger,
                   record_status>>

\* handlers.py lines 237-250: the final status.
worker_finished(w) ==
    /\ pc = "logger"
    /\ worker_pc[w] = "logging"
    /\ record_status' = [record_status EXCEPT
                            ![w] = [status |-> "completed", writer |-> w]]
    /\ worker_pc' = [worker_pc EXCEPT ![w] = "finished"]
    /\ UNCHANGED <<loggerFrame, pc, global_logger, worker_logger, record_logs>>

LoggerNext ==
    \E w \in Workers :
        \/ worker_running(w)
        \/ worker_setup_web_logger(w)
        \/ worker_log(w)
        \/ worker_finished(w)

LoggerSpec == LoggerInit /\ [][LoggerNext]_vars

\* ---- one job of translate_epub_file through phases 2 and 3 ---------------

Placeholders == 1..MaxTags

\* Lines 255-345: the jobs _collect_epub_translation_jobs_recursive makes.
\* A block_content job carries has_inline_tags and a tag_map, a text or a
\* tail job neither.
EpubJobs ==
    {[type |-> "block_content", tag_map |-> m, sub_chunks |-> n] :
        m \in SUBSET Placeholders, n \in 1..MaxSubChunks}
    \cup {[type |-> t, tag_map |-> {}, sub_chunks |-> n] :
             t \in {"text", "tail"}, n \in 1..MaxSubChunks}

NoTranslatedText == [set |-> FALSE, error |-> FALSE, missing |-> {}]

SourceElement == [text |-> "source", children |-> "source", tail |-> "source"]

\* The placeholders that no part holds.
RECURSIVE missing_from(_, _)
missing_from(expected, tparts) ==
    IF tparts = <<>> THEN expected
    ELSE missing_from(expected \ Head(tparts).kept, Tail(tparts))

SpliceInit ==
    /\ JobIdle("ep_job")
    /\ OnlySplice
    /\ epub_job \in EpubJobs
    /\ epub_parts = <<>>
    /\ job_translated_text = NoTranslatedText
    /\ element = SourceElement
    /\ completed_jobs_count = 0
    /\ failed_jobs_count = 0

\* Lines 572-577: the interruption seen at the head of the job loop; the
\* job keeps no translated_text.
job_not_reached ==
    /\ pc = "ep_job"
    /\ epub_parts = <<>>
    /\ pc' = "ep_phase3"
    /\ UNCHANGED <<spliceFrame, spliceVars>>

\* translate_epub_chunks_with_context, lines 375-418: one sub-chunk.  The
\* translation holds the placeholders kept; None becomes the error
\* placeholder around the source text, which holds its placeholders.
translate_epub_chunk ==
    /\ pc = "ep_job"
    /\ Len(epub_parts) < epub_job.sub_chunks
    /\ \/ \E kept \in SUBSET epub_job.tag_map :
             epub_parts' = Append(epub_parts,
                                  [kind |-> "translated", kept |-> kept])
       \/ epub_parts' = Append(epub_parts,
                               [kind |-> "error", kept |-> epub_job.tag_map])
    /\ UNCHANGED <<spliceFrame, pc, epub_job, job_translated_text, element,
                   completed_jobs_count, failed_jobs_count>>

\* Lines 376-379 and 592-636: the sub-chunk loop is left, at its end or at
\* an interruption; the parts are joined, restore_tags puts the tags back
\* for the placeholders present, and the job is counted.
job_translated ==
    /\ pc = "ep_job"
    /\ \E has_translation_error \in
             {\E k \in DOMAIN epub_parts : epub_parts[k].kind = "error"} :
          /\ job_translated_text' =
                [set |-> TRUE,
                 error |-> has_translation_error,
                 missing |-> missing_from(epub_job.tag_map, epub_parts)]
          /\ IF has_translation_error
             THEN /\ failed_jobs_count' = failed_jobs_count + 1
                  /\ UNCHANGED completed_jobs_count
             ELSE /\ completed_jobs_count' = completed_jobs_count + 1
                  /\ UNCHANGED failed_jobs_count
    /\ pc' = "ep_phase3"
    /\ UNCHANGED <<spliceFrame, epub_job, epub_parts, element>>

\* Lines 644-668 and 173-211: phase 3 for the job.
apply_translation ==
    /\ pc = "ep_phase3"
    /\ element' =
          IF ~job_translated_text.set THEN element
          ELSE IF epub_job.type = "block_content"
          THEN [text |-> "translated", children |-> "rebuilt",
                tail |-> "none"]
          ELSE IF epub_job.type = "text"
          THEN [element EXCEPT !.text = "translated"]
          ELSE [element EXCEPT !.tail = "translated"]
    /\ pc' = "ep_applied"
    /\ UNCHANGED <<spliceFrame, epub_job, epub_parts, job_translated_text,
                   completed_jobs_count, failed_jobs_count>>

SpliceNext ==
    \/ job_not_reached
    \/ translate_epub_chunk
    \/ job_translated
    \/ apply_translation

SpliceSpec == SpliceInit /\ [][SpliceNext]_vars

\* ---- generate_translation_request on its own -----------------------------

\* TRANSLATE_TAG_IN and TRANSLATE_TAG_OUT, one symbol each.
TAG_IN == char("<TRANSLATED>")

TAG_OUT == char("</TRANSLATED>")

MainContents ==
    UNION {[1..k -> {char("a"), char("b"), char(" ")}] : k \in 0..MaxMain}

Responses ==
    UNION {[1..k -> {char("a"), char("b"), char(" "), TAG_IN, TAG_OUT}] :
              k \in 0..MaxResponse}

NoResult == [none |-> TRUE, text |-> <<>>]

\* Line 92 without the test.
contains_never(raw, main) == FALSE

\* Line 92: main_content in full_raw_response.
contains(raw, main) ==
    \E k \in 1..(Len(raw) - Len(main) + 1) :
        SubSeq(raw, k, k + Len(main) - 1) = main

\* llm_client.py lines 22-25 and 97-103: the first match of
\* TAG_IN(.*?)TAG_OUT, stripped; None when there is no match.
extract_translation(response) ==
    LET opens == {p \in DOMAIN response :
                     /\ response[p] = TAG_IN
                     /\ \E q \in p + 1..Len(response) : response[q] = TAG_OUT}
    IN  IF opens = {} THEN NoResult
        ELSE LET p == CHOOSE p \in opens : \A o \in opens : p <= o
                 q == CHOOSE q \in p + 1..Len(response) :
                         /\ response[q] = TAG_OUT
                         /\ \A r \in p + 1..q - 1 : response[r] # TAG_OUT
             IN  [none |-> FALSE, text |-> strip(SubSeq(response, p + 1, q - 1))]

FallbackInit ==
    /\ JobIdle("fb_call")
    /\ OnlyFallback
    /\ chunk_main_content \in MainContents
    /\ raw_response \in Responses
    /\ request_result = NoResult

\* translator.py lines 42-101: generate_translation_request, make_request
\* having returned raw_response.
generate_translation_request_text ==
    /\ pc = "fb_call"
    /\ \E translated_text \in {extract_translation(raw_response)} :
          request_result' =
             IF Len(strip(chunk_main_content)) <= 1
             THEN [none |-> FALSE, text |-> chunk_main_content]
             ELSE IF raw_response = <<>> THEN NoResult
             ELSE IF ~translated_text.none /\ translated_text.text # <<>>
             THEN [none |-> FALSE,
                   text |-> clean_translated_text(translated_text.text)]
             ELSE IF contains(raw_response, chunk_main_content) THEN NoResult
             ELSE [none |-> FALSE,
                   text |-> clean_translated_text(strip(raw_response))]
    /\ pc' = "fb_returned"
    /\ UNCHANGED <<fallbackFrame, chunk_main_content, raw_response>>

FallbackSpec == FallbackInit /\ [][generate_translation_request_text]_vars

\* ---- the rolling context of translate_chunks on its own ------------------

\* The translated text of chunk j when it has n words: translated_chunk_text
\* .split().
words_of(j, n) == [k \in 1..n |-> [chunk |-> j, word |-> k]]

\* What a chunk comes to: a blank main content (line 286), None from
\* generate_translation_request (line 326), or a translated text of n words.
ChunkOutcomes ==
    {[kind |-> k, words |-> 0] : k \in {"blank", "failed"}}
        \cup {[kind |-> "translated", words |-> n] : n \in 0..MaxWords}

\* Lines 321-325 that keep the whole text.
last_words_all(words) == words

\* Lines 321-325: " ".join(words[-25:]) when len(words) > 25, the text
\* itself otherwise.
last_words(words) ==
    IF Len(words) > ContextWords
    THEN SubSeq(words, Len(words) - ContextWords + 1, Len(words))
    ELSE words

\* Lines 249-253.
ContextInit ==
    /\ JobIdle("context")
    /\ OnlyContext
    /\ chunk_outcomes \in
          UNION {[1..n -> ChunkOutcomes] : n \in 0..MaxContextChunks}
    /\ chunk_pos = 0
    /\ llm_context = <<>>
    /\ prompt_contexts = <<>>

\* Lines 264-338: one chunk of the loop.
translate_chunk ==
    /\ pc = "context"
    /\ chunk_pos < Len(chunk_outcomes)
    /\ \E outcome \in {chunk_outcomes[chunk_pos + 1]} :
          IF outcome.kind = "blank"
          THEN UNCHANGED <<llm_context, prompt_contexts>>
          ELSE /\ prompt_contexts' =
                     Append(prompt_contexts,
                            [chunk |-> chunk_pos + 1, context |-> llm_context])
               /\ llm_context' =
                     IF outcome.kind = "translated"
                     THEN last_words(words_of(chunk_pos + 1, outcome.words))
                     ELSE <<>>
    /\ chunk_pos' = chunk_pos + 1
    /\ UNCHANGED <<contextFrame, pc, chunk_outcomes>>

ContextSpec == ContextInit /\ [][translate_chunk]_vars

\* ---- extract_block_translations on its own -------------------------------

\* The symbols of a block translation: the two index tags of a block of two
\* subtitles, a word, a blank and a row break.
BlockSymbols == {"[0]", "[1]", "w", " ", "\n"}

BlockTexts == UNION {[1..k -> BlockSymbols] : k \in 1..MaxBlockText}

\* \[\d+\]
is_index_tag(symbol) == symbol \in {"[0]", "[1]"}

\* int(index_match.group(1))
tag_index(symbol) == IF symbol = "[0]" THEN 0 ELSE 1

\* \s
is_space(symbol) == symbol \in {" ", "\n"}

\* str.strip() of a text that holds row breaks.
RECURSIVE text_lstrip(_)
text_lstrip(t) ==
    IF t # <<>> /\ is_space(Head(t)) THEN text_lstrip(Tail(t)) ELSE t

RECURSIVE text_rstrip(_)
text_rstrip(t) ==
    IF t # <<>> /\ is_space(t[Len(t)])
    THEN text_rstrip(SubSeq(t, 1, Len(t) - 1))
    ELSE t

text_strip(t) == text_rstrip(text_lstrip(t))

\* The last symbol of the run of white space that starts at t[p].
RECURSIVE run_end(_, _)
run_end(t, p) ==
    IF p < Len(t) /\ is_space(t[p + 1]) THEN run_end(t, p + 1) ELSE p

\* Lines 205-206: re.sub(r'(\S.*?)\s+(\[\d+\])', r'\1\n\2', text). A run of
\* white space that ends at a tag becomes one line break when a symbol that
\* is not white space stands before it and the previous match has not
\* consumed that symbol: matches do not overlap, so the tag that closed a
\* match cannot open the next one.
RECURSIVE sub_from(_, _, _)
sub_from(t, p, consumed) ==
    IF p > Len(t) THEN <<>>
    ELSE IF ~is_space(t[p]) THEN <<t[p]>> \o sub_from(t, p + 1, FALSE)
    ELSE LET q == run_end(t, p)
         IN IF /\ q < Len(t)
               /\ is_index_tag(t[q + 1])
               /\ p > 1
               /\ ~consumed
            THEN <<"\n", t[q + 1]>> \o sub_from(t, q + 2, TRUE)
            ELSE SubSeq(t, p, q) \o sub_from(t, q + 1, FALSE)

fix_multiple_indices_on_same_line(t) == sub_from(t, 1, FALSE)

\* str.split('\n')
RECURSIVE split_lines(_, _)
split_lines(t, row) ==
    IF t = <<>> THEN <<row>>
    ELSE IF Head(t) = "\n" THEN <<row>> \o split_lines(Tail(t), <<>>)
    ELSE split_lines(Tail(t), Append(row, Head(t)))

\* '\n'.join(lines)
RECURSIVE join_lines(_)
join_lines(ls) ==
    IF ls = <<>> THEN <<>>
    ELSE IF Len(ls) = 1 THEN ls[1]
    ELSE ls[1] \o <<"\n">> \o join_lines(Tail(ls))

\* Lines 181-182 and 195-196: the entry under way is stored when it has at
\* least one row.
store_entry(entries, current_index, current_text_lines) ==
    IF current_index # -1 /\ current_text_lines # <<>>
    THEN [k \in DOMAIN entries \cup {current_index} |->
             IF k = current_index
             THEN text_strip(join_lines(current_text_lines))
             ELSE entries[k]]
    ELSE entries

\* Lines 177-196: the walk over the lines; current_index is -1 for None. A
\* row opens an entry when it starts with a tag (re.match of
\* r'^\[(\d+)\](.*)$'), otherwise it joins the entry under way.
RECURSIVE walk_lines(_, _, _, _)
walk_lines(ls, entries, current_index, current_text_lines) ==
    IF ls = <<>>
    THEN store_entry(entries, current_index, current_text_lines)
    ELSE LET row == Head(ls)
         IN IF row # <<>> /\ is_index_tag(row[1])
            THEN LET remaining_text == text_strip(Tail(row))
                 IN walk_lines(Tail(ls),
                        store_entry(entries, current_index,
                                    current_text_lines),
                        tag_index(row[1]),
                        IF remaining_text # <<>> THEN <<remaining_text>>
                        ELSE <<>>)
            ELSE walk_lines(Tail(ls), entries, current_index,
                     IF current_index # -1
                     THEN Append(current_text_lines, row)
                     ELSE current_text_lines)

\* Lines 167-202. _fix_missing_indices (lines 213-226) only logs and
\* returns its argument.
extract_block_translations(translated_text) ==
    walk_lines(split_lines(text_strip(
                   fix_multiple_indices_on_same_line(translated_text)), <<>>),
               <<>>, -1, <<>>)

ExtractInit ==
    /\ JobIdle("ex_call")
    /\ OnlyExtract
    /\ extract_text \in BlockTexts
    /\ extract_indices \in {{0}, {0, 1}}
    /\ extract_translations = <<>>

extract_block ==
    /\ pc = "ex_call"
    /\ pc' = "ex_returned"
    /\ extract_translations' = extract_block_translations(extract_text)
    /\ UNCHANGED <<extractFrame, extract_text, extract_indices>>

ExtractSpec == ExtractInit /\ [][extract_block]_vars

\* ---- the interrupt flag of a job record under every writer ---------------

\* translation_state.py line 32 and routes.py line 207: a new record.
NewRecord == [status |-> "queued", interrupted |-> FALSE]

\* The updates of update_translation and the (field, value) pairs of
\* set_translation_field, as far as status and the flag go.
FieldUpdates ==
    {[field |-> "status", value |-> st] :
         st \in {"queued", "running"} \cup Terminal}
        \cup {[field |-> "interrupted", value |-> v] : v \in {"True", "False"}}

write_field(record, update) ==
    IF update.field = "status"
    THEN [record EXCEPT !.status = update.value]
    ELSE [record EXCEPT !.interrupted = (update.value = "True")]

\* routes.py line 173: MaxRequests requests were given the same id, the
\* millisecond of their arrival; none has stored its record yet.
FlagInit ==
    /\ JobIdle("flag")
    /\ OnlyFlag
    /\ job_record = [status |-> "absent", interrupted |-> FALSE]
    /\ same_id_requests = MaxRequests
    /\ last_operation = "none"

\* routes.py lines 200-217: active_translations[translation_id] = {...}.
start_translation_request_stores ==
    /\ pc = "flag"
    /\ same_id_requests > 0
    /\ job_record' = NewRecord
    /\ same_id_requests' = same_id_requests - 1
    /\ last_operation' = "start_translation_request"
    /\ UNCHANGED <<flagFrame, pc>>

\* routes.py lines 340-349.
interrupt_route ==
    /\ pc = "flag"
    /\ job_record.status \in {"queued", "running"}
    /\ job_record' = [job_record EXCEPT !.interrupted = TRUE]
    /\ last_operation' = "interrupt_translation_job"
    /\ UNCHANGED <<flagFrame, pc, same_id_requests>>

\* handlers.py line 60, lines 236-245 and 273: the worker writes the status
\* and reads the flag.
worker_writes_status ==
    /\ pc = "flag"
    /\ \/ /\ job_record.status = "queued"
          /\ job_record' = [job_record EXCEPT !.status = "running"]
       \/ /\ job_record.status = "running"
          /\ \E st \in {IF job_record.interrupted THEN "interrupted"
                        ELSE "completed", "error"} :
                job_record' = [job_record EXCEPT !.status = st]
    /\ last_operation' = "worker"
    /\ UNCHANGED <<flagFrame, pc, same_id_requests>>

\* translation_state.py lines 17-34: create_translation stores a new record
\* whether or not the id is known.
create_translation ==
    /\ pc = "flag"
    /\ job_record' = NewRecord
    /\ job_record' # job_record
    /\ last_operation' = "create_translation"
    /\ UNCHANGED <<flagFrame, pc, same_id_requests>>

\* translation_state.py lines 36-60 (translation.update(updates)) and lines
\* 77-83 (self._translations[translation_id][field] = value); both return
\* False for an unknown id.
set_translation_field ==
    /\ pc = "flag"
    /\ job_record.status # "absent"
    /\ \E update \in FieldUpdates :
          /\ job_record' = write_field(job_record, update)
          /\ job_record' # job_record
    /\ last_operation' \in {"update_translation", "set_translation_field"}
    /\ UNCHANGED <<flagFrame, pc, same_id_requests>>

\* translation_state.py lines 137-143: set_interrupted(translation_id,
\* interrupted=True).
set_interrupted ==
    /\ pc = "flag"
    /\ job_record.status # "absent"
    /\ \E flag \in BOOLEAN :
          job_record' = [job_record EXCEPT !.interrupted = flag]
    /\ last_operation' = "set_interrupted"
    /\ UNCHANGED <<flagFrame, pc, same_id_requests>>

FlagNext ==
    \/ start_translation_request_stores
    \/ interrupt_route
    \/ worker_writes_status
    \/ create_translation
    \/ set_translation_field
    \/ set_interrupted

FlagSpec == FlagInit /\ [][FlagNext]_vars

\* ---- properties ---------------------------------------------------------

\* C1: once the status is completed, interrupted or error, no step of the
\* worker or of the interrupt route changes it.
C1_TerminalStatusIsFinal ==
    [][(status \in Terminal) => (status' = status)]_vars

\* A completed job on which a later interrupt request was refused.
C1_Witness == status = "completed" /\ pc = "done" /\ resp = 400

\* C2: while the status is running, every write to progress leaves a value
\* that is not below the one before.
C2_ProgressNonDecreasing ==
    [][(status = "running") => (progress' >= progress)]_vars

\* An EPUB job in its second job item, after the progress writes of phase 1
\* and of two job items.
C2_Witness ==
    /\ config.file_type = "epub"
    /\ status = "running"
    /\ pc = "ec_poll"
    /\ job_idx = 1
    /\ progress = phase2_progress(1, total)

\* C3: progress is 100 only in status completed, and an interrupted job
\* ends below 100.
C3_HundredOnlyWhenCompleted ==
    /\ (progress = Percent(100) => status = "completed")
    /\ (status = "interrupted" => progress < Percent(100))

\* C4: completed + failed <= total, in chunks, job items and subtitles.
C4_CountsWithinTotal ==
    /\ stats.completed_chunks + stats.failed_chunks <= stats.total_chunks
    /\ stats.completed_subtitles + stats.failed_subtitles <= stats.total_subtitles

\* C5: the interrupt route sets the flag and answers 200 exactly when the
\* status it reads is queued or running; for completed, interrupted and
\* error it answers 400 and leaves the flag as it is.
C5_InterruptIffQueuedOrRunning ==
    [][/\ (nreq' # nreq /\ status # "absent" =>
             IF status \in {"queued", "running"}
             THEN ipc' = "set"
             ELSE ipc' = "idle" /\ resp' = 400 /\ interrupted' = interrupted)
       /\ (ipc = "set" /\ ipc' # "set" => interrupted' /\ resp' = 200)
       /\ (resp' = 200 /\ resp # 200 => ipc = "set")
       /\ (interrupted' /\ ~interrupted => ipc = "set")]_vars

\* A first request set the flag, a second one was refused on the ended job.
C5_Witness == interrupted /\ resp = 400 /\ nreq = 2 /\ status \in Terminal

\* C6: a job that ends with its interrupt flag set ends interrupted or in
\* error, not completed.
C6_FlagNeverEndsCompleted ==
    pc = "done" /\ ipc = "idle" /\ interrupted => status \in {"interrupted", "error"}

\* C7: in a text job, at most one chunk request starts and at most one
\* chunk is translated after the flag is set.
C7_AtMostOneChunkAfterFlag ==
    config.file_type = "txt" => after_flag.requests <= 1 /\ after_flag.chunks <= 1

\* A text job interrupted between the poll and the request of a chunk that
\* was not its last: the request started and ended, and the job stopped.
C7_Witness ==
    /\ config.file_type = "txt"
    /\ after_flag.requests = 1
    /\ after_flag.chunks = 1
    /\ status = "interrupted"
    /\ Len(parts) < total

\* The worker is in a loop of its pipeline with a poll point still to come.
PollAhead ==
    \/ pc \in {"tc_poll", "ep2_poll", "ep2_progress", "ec_poll", "sb_poll"}
    \/ pc \in {"tc_progress", "tc_request", "tc_llm", "tc_result"} /\ i + 1 < total
    \/ pc \in {"ec_request", "ec_llm", "ec_result"}
          /\ (i + 1 < sub_total \/ job_idx + 1 < total)
    \/ pc = "ep2_job_done" /\ job_idx + 1 < total
    \/ pc \in {"sb_progress", "sb_llm", "sb_response", "sb_post",
              "sb_post_response"} /\ block_idx + 1 < total

\* C8: when the flag of a running job is set while a poll point is still to
\* come, the worker observes it and the job ends interrupted.
C8_InterruptLeadsToInterrupted ==
    (interrupted /\ status = "running" /\ PollAhead)
        ~> (observed /\ status = "interrupted")

\* An SRT job whose worker saw the flag at a block's poll point and ended
\* interrupted.
C8_Witness ==
    /\ config.file_type = "srt"
    /\ observed
    /\ status = "interrupted"
    /\ block_idx < total

\* C9: once the worker has observed the flag, progress never increases.
C9_NoProgressAfterObserved ==
    [][(observed) => (progress' <= progress)]_vars

\* A job that observed the flag, went through the pipeline's and the
\* handler's way out, and kept a progress below 100.
C9_Witness ==
    /\ observed
    /\ pc = "done"
    /\ progress > 0
    /\ progress < Percent(100)

\* C10: a job interrupted mid-way has its output file on disk when its
\* status becomes interrupted.
C10_OutputBeforeInterrupted ==
    status = "interrupted" /\ observed => output_file.exists

\* C11: the outputs of translate_chunks are those of the chunks 0, 1, ... in
\* order, each a translation, the untouched main of a blank chunk or the
\* error placeholder of its chunk; when the call returns without having
\* observed an interruption there is one output per chunk.
C11_OneOutputPerChunkInOrder ==
    /\ \A k \in 1..Len(parts) :
          /\ parts[k].chunk = k - 1
          /\ \/ parts[k].text = [kind |-> "translated"]
             \/ parts[k].text = [kind |-> "main", main_content |-> "blank"]
             \/ parts[k].text = error_placeholder(k - 1, "text")
    /\ (pc = "txt_progress100" /\ ~observed => Len(parts) = total)

\* A call on three chunks that returned a translation, the main of a blank
\* chunk and an error placeholder, with no interruption observed.
C11_Witness ==
    /\ config.file_type = "chunks"
    /\ pc = "txt_progress100"
    /\ ~observed
    /\ total = 3
    /\ Len(parts) = 3
    /\ parts[1].text.kind = "translated"
    /\ parts[2].text.kind = "main"
    /\ parts[3].text.kind = "error"

\* C12: the step that ends a chunk whose translation request returned no
\* text appends the placeholder of segment i+1 around the chunk's main,
\* adds one to the failed count, leaves the completed count, empties the
\* rolling context and moves to chunk i+1.
C12_FailedChunkPlaceholder ==
    [][(/\ pc = "tc_result"
        /\ pc' # "tc_result"
        /\ main_content # "blank"
        /\ ~generate_translation_request(main_content, full_raw_response))
       => (/\ parts' = Append(parts,
                 [chunk |-> i,
                  text |-> [kind |-> "error", segment |-> i + 1,
                            main_content |-> main_content]])
           /\ failed_count' = failed_count + 1
           /\ completed_count' = completed_count
           /\ stats'.failed_chunks = failed_count + 1
           /\ stats'.completed_chunks = completed_count
           /\ last_successful_llm_context' = <<>>
           /\ i' = i + 1
           /\ pc' = IF i + 1 < total THEN "tc_poll" ELSE "txt_progress100")]_vars

\* The second chunk failed after the first was translated: the context the
\* first left is gone and the loop is at the third chunk.
C12_Witness ==
    /\ total = 3
    /\ pc = "tc_poll"
    /\ i = 2
    /\ parts[1].text.kind = "translated"
    /\ parts[2].text = error_placeholder(1, "text")
    /\ failed_count = 1
    /\ completed_count = 1
    /\ last_successful_llm_context = <<>>

\* The POSTs of the call so far, in order.
posts == SelectSeq(http_log, LAMBDA e : e # "sleep")

\* C13: one call sends at most MAX_TRANSLATION_ATTEMPTS POSTs, none after
\* one that succeeded; it returns the text of the POST that succeeded, or
\* no value once the last allowed POST has failed, and whatever the failure
\* (timeout, status, malformed JSON, anything else) it ends by returning.
C13_BoundedAttemptsNoRaise ==
    /\ Len(posts) <= MAX_TRANSLATION_ATTEMPTS
    /\ \A k \in 1..(Len(posts) - 1) : posts[k] \in HttpErrors
    /\ pc \in {"post", "returned"}
    /\ (pc = "post" => \A k \in 1..Len(posts) : posts[k] \in HttpErrors)
    /\ (pc = "returned" =>
          /\ Len(posts) >= 1
          /\ IF posts[Len(posts)] \in HttpErrors
             THEN Len(posts) = MAX_TRANSLATION_ATTEMPTS /\ full_raw_response = "none"
             ELSE full_raw_response = posts[Len(posts)])

\* A provider's call that returned no value after a timeout and a
\* malformed body.
C13_Witness ==
    /\ client = "OllamaProvider"
    /\ pc = "returned"
    /\ posts = <<"timeout", "json">>
    /\ full_raw_response = "none"

\* C14: for every HTML fragment h, restore_tags applied to the text and the
\* map that preserve_tags(h) returns gives h back unchanged.
C14_RestoreInvertsPreserve ==
    pc = "restored" => restored_text = text

\* Every placeholder of the map is in the text in a near-form and none in
\* its exact form.
all_mutated ==
    /\ keys(tag_map) = {e.TAG : e \in {x \in Range(text) : x.c \in Forms}}
    /\ \A n \in keys(tag_map) : placeholder(n) \notin Range(text)

\* C15: for every placeholder map and every text in which its placeholders
\* appear in a mutated bracket form, validate_placeholders reports the text
\* invalid with a non-empty mutated list, and the text that
\* fix_mutated_placeholders makes of it with that list validates as ok.
C15_MutationsDetectedAndFixed ==
    all_mutated =>
        /\ Len(validation) >= 1 =>
              ~validation[1].is_valid /\ validation[1].mutated # {}
        /\ pc = "validated" =>
              Len(validation) = 2 /\ validation[2].is_valid

C15_Witness ==
    /\ all_mutated
    /\ Len(tag_map) = MaxTags
    /\ pc = "validated"
    /\ \E k \in DOMAIN text : text[k].c = "bare"

\* C16: when post_process_translation is given a tag map and a translation
\* that holds every placeholder of the map, the text it returns holds every
\* placeholder of the map too.
C16_PostProcessKeepsPlaceholders ==
    /\ pc = "post_processed"
    /\ \A n \in keys(tag_map) : placeholder(n) \in Range(text)
    => \A n \in keys(tag_map) : placeholder(n) \in Range(returned)

\* C17: when an EPUB has no .opf file or lacks a manifest or spine, or an
\* SRT file is malformed, the job ends with status error; it never ends
\* with status completed.
C17_MalformedInputEndsInError ==
    ~config.well_formed => status # "completed"

\* The 0-based lines in the main content of chunk c.
main_lines(c) == lines_of(structured_chunks[c].main_content)

\* C18: for every text and every N >= 1, each logical line that holds
\* non-whitespace characters is in the main span of at least one chunk that
\* split_text_into_chunks_with_context returns.
C18_EveryTextLineInSomeChunk ==
    pc = "chunked" =>
        \A idx \in 0..Len(all_lines) - 1 :
            all_lines[idx + 1] # "blank" =>
                \E c \in DOMAIN structured_chunks : idx \in main_lines(c)

C18_Witness ==
    /\ pc = "chunked"
    /\ Len(structured_chunks) >= 2
    /\ \E k \in DOMAIN all_lines : all_lines[k] = "blank"
    /\ all_lines[Len(all_lines)] # "blank"

\* C19: for every text and every N >= 1, the main spans of the chunks are
\* pairwise disjoint ranges of logical lines in increasing order: no logical
\* line is in the main content of two chunks.
C19_MainSpansDisjointAndIncreasing ==
    \A c, d \in DOMAIN structured_chunks :
        c < d => structured_chunks[c].main_content.last
                     <= structured_chunks[d].main_content.first

\* C20: for every text and every N >= 1, the cursor of the chunker strictly
\* increases on every iteration of its loop, the function returns, and it
\* emits at most as many chunks as there are logical lines.
C20_CursorIncreasesAndTerminates ==
    /\ [][(pc = "chunking") => (current_position' > current_position)]_vars
    /\ [](Len(structured_chunks) <= Len(all_lines))
    /\ <>(pc = "chunked")

C20_Witness ==
    /\ pc = "chunked"
    /\ Len(all_lines) = MaxLines
    /\ Len(structured_chunks) = Len(all_lines)

\* The lines of a content without the empty lines at its end.
RECURSIVE without_trailing_newlines(_)
without_trailing_newlines(lines) ==
    IF lines # <<>> /\ lines[Len(lines)] = ""
    THEN without_trailing_newlines(SubSeq(lines, 1, Len(lines) - 1))
    ELSE lines

\* C21: for every SRT content of which parse_srt accepts every block,
\* reconstruct_srt(parse_srt(s)) is s again, up to the line endings and the
\* newlines at the end.
C21_ReconstructInvertsParse ==
    /\ pc = "reconstructed"
    /\ \A k \in DOMAIN split_blocks(srt_content, 1, <<>>, <<>>) :
          accepted(split_blocks(srt_content, 1, <<>>, <<>>)[k])
    => without_trailing_newlines(translated_srt)
           = without_trailing_newlines(srt_content)

RECURSIVE text_length_of(_)
text_length_of(block) ==
    IF block = <<>> THEN 0
    ELSE Head(block).text_length + text_length_of(Tail(block))

non_empty(block) == SelectSeq(block, LAMBDA sub : sub.text_length > 0)

RECURSIVE concatenated(_)
concatenated(bs) ==
    IF bs = <<>> THEN <<>> ELSE Head(bs) \o concatenated(Tail(bs))

\* C23: the blocks that group_subtitles_for_translation returns partition
\* the subtitle list: put one after the other they are the input list, the
\* subtitles of whitespace only included.
C23_BlocksPartitionSubtitles ==
    pc = "grouped" => concatenated(grouped_blocks) = srt_subtitles

\* What the tests of lines 151-152 leave to the current block: how many
\* more subtitles and characters it takes before a new block is started.
lines_left == IF Len(current_block) >= lines_per_block THEN 0
              ELSE lines_per_block - Len(current_block)

chars_left == IF current_char_count >= max_chars_per_block THEN 0
              ELSE max_chars_per_block - current_char_count

\* C24: a subtitle of whitespace only is attached to the current block
\* without consuming its budget: the step that takes it reduces neither the
\* number of non-empty subtitles nor the number of characters that the block
\* can still accept before a new block is started.
C24_BlankSubtitleKeepsBudget ==
    [][(/\ pc = "group"
        /\ subtitle_idx < Len(srt_subtitles)
        /\ srt_subtitles[subtitle_idx + 1].text_length = 0)
       => (lines_left' >= lines_left /\ chars_left' >= chars_left)]_vars

\* A response that gives the block no translation: none, an exception, no
\* output markers, or an expected [index] tag missing.
unusable(response) ==
    \/ response.kind # "tagged"
    \/ ~(srt_block_indices \subseteq response.found)

\* C25, retries: a block is asked again only after an unusable response,
\* the prompt is enhanced only after a response with a missing tag, and
\* make_request is called at most max_retries = 3 times for the block.
C25_RetryOnlyWhileUnusable ==
    /\ Len(srt_responses) <= max_retries
    /\ \A k \in DOMAIN srt_responses :
          k < Len(srt_responses) => unusable(srt_responses[k])
    /\ srt_prompt = "enhanced" =>
          \E k \in DOMAIN srt_responses :
              /\ srt_responses[k].kind = "tagged"
              /\ unusable(srt_responses[k])
    /\ pc = "block" => srt_retry_count = Len(srt_responses)

\* C25, failure: once the last response of a block was unusable too, every
\* subtitle of the block keeps its original text and is counted as failed.
C25_FailedBlockKeepsOriginals ==
    (/\ pc = "block_done"
     /\ unusable(srt_responses[Len(srt_responses)]))
    => /\ \A k \in srt_block_indices : srt_translations[k] = "original"
       /\ srt_failed_count = Cardinality(srt_block_indices)
       /\ Len(srt_responses) = max_retries

\* C25, termination: the retry loop of a block always ends.
C25_RetryLoopTerminates == <>(pc = "block_done")

\* C25: for each SRT block the request is retried only while the response
\* is unusable, never more than 3 times, the loop ends, and after the last
\* failure every subtitle of the block keeps its text and counts as failed.
C25_BlockRetry ==
    /\ [](C25_RetryOnlyWhileUnusable /\ C25_FailedBlockKeepsOriginals)
    /\ C25_RetryLoopTerminates

C25_Witness ==
    /\ pc = "block_done"
    /\ Len(srt_responses) = max_retries
    /\ srt_prompt = "enhanced"
    /\ srt_responses[1].kind = "tagged"
    /\ srt_responses[2].kind = "none"
    /\ unusable(srt_responses[3])
    /\ Cardinality(srt_block_indices) = 2
    /\ srt_failed_count = 2

\* The stored job as a reader sees it.
stored_job == <<stored, nested>>

\* The returned dicts as their holders see them.
snapshot_values ==
    [n \in DOMAIN snapshot |->
        [status |-> snapshot[n].status,
         progress |-> snapshot[n].progress,
         stats |-> read(snapshot[n], "stats"),
         logs |-> read(snapshot[n], "logs"),
         config |-> read(snapshot[n], "config")]]

\* C26: the dict that get_translation returns is a deep copy: a write to it
\* or to its nested stats, logs or config never changes the stored job, and
\* a later update of the stored job never changes a dict already returned.
C26_SnapshotIsDeepCopy ==
    [][/\ (store_call' = "snapshot_write") => (stored_job' = stored_job)
       /\ (store_call' = "update_translation")
             => (snapshot_values' = snapshot_values)]_vars

\* C27, ids: two submit requests never receive the same id.
C27_IdsDiffer ==
    \A r1, r2 \in DOMAIN translation_id :
        (r1 # r2 /\ translation_id[r1] # -1 /\ translation_id[r2] # -1)
            => translation_id[r1] # translation_id[r2]

\* C27, records: the record registered by a submit request stays that
\* request's record: no other request registers over it.
C27_NoOverwrite ==
    \A r \in DOMAIN submit_pc :
        (submit_pc[r] = "answered")
            => (active_translations[translation_id[r]].request = r)

\* C27: a submit registers a new record in state queued under an id that no
\* other job has: two submits never receive the same id, and the second
\* never overwrites the record of the first.
C27_SubmitRegistersUniqueId == C27_IdsDiffer /\ C27_NoOverwrite

\* C28: the status and the logs of a job are written by that job's own
\* worker only: when two jobs run in one process, no entry emitted by the
\* worker of one is appended to the logs of the other.
C28_OnlyOwnWorkerWrites ==
    \A w \in DOMAIN record_logs :
        /\ record_status[w].writer \in {0, w}
        /\ \A k \in DOMAIN record_logs[w] : record_logs[w][k] = w

\* C29: a block_content job whose joined translation lacks a placeholder of
\* its tag_map is declined in phase 2: it is counted as failed, not as
\* completed, and phase 3 does not splice it into the document.
C29_DamagedTranslationDeclined ==
    (/\ epub_job.type = "block_content"
     /\ job_translated_text.set
     /\ job_translated_text.missing # {})
    => /\ failed_jobs_count = 1
       /\ completed_jobs_count = 0
       /\ element = SourceElement

\* C30: phase 3 changes a host element only for a job translated with
\* success: a job with a failed sub-chunk leaves the text, the children and
\* the tail of its host element as they are in the source document.
C30_FailedJobLeavesElement ==
    (\E k \in DOMAIN epub_parts : epub_parts[k].kind = "error")
        => element = SourceElement

\* C31: splicing a block_content job replaces the text and the child list
\* of the host element only: the tail of the element is after the splice as
\* it was before.
C31_BlockSpliceKeepsTail ==
    (epub_job.type = "block_content" /\ pc = "ep_applied")
        => element.tail = SourceElement.tail

\* C32: when the translation of a job was cut short by an interruption,
\* phase 3 leaves the host element untouched: an element is replaced only by
\* a translation that covers all the sub-chunks of its job, never by that of
\* a prefix of them nor by the empty string.
C32_NoPartialSplice ==
    (pc = "ep_applied" /\ element # SourceElement)
        => Len(epub_parts) = epub_job.sub_chunks

\* C33: between two consecutive attempts of one LLM request the retry loop
\* waits RETRY_DELAY_SECONDS: a failed attempt is never followed at once by
\* the next attempt.
C33_SleepBetweenAttempts ==
    \A k \in 1..(Len(http_log) - 1) :
        http_log[k] # "sleep" => http_log[k + 1] = "sleep"

\* A response that came and holds no pair of output markers, for a chunk
\* that is sent to the LLM.
lacks_markers ==
    /\ pc = "fb_returned"
    /\ Len(strip(chunk_main_content)) > 1
    /\ raw_response # <<>>
    /\ extract_translation(raw_response).none

\* The response holds the main text of the chunk verbatim.
echoes_main ==
    \E from \in DOMAIN raw_response : \E to \in from..Len(raw_response) :
        /\ to - from + 1 = Len(chunk_main_content)
        /\ \A k \in from..to :
              raw_response[k] = chunk_main_content[k - from + 1]

\* C34: when the response lacks the output markers,
\* generate_translation_request returns the raw response, cleaned, only if
\* the response does not contain the main text of the chunk; if it contains
\* it the result is None and the raw response is discarded.
C34_FallbackUnlessEcho ==
    lacks_markers =>
        IF echoes_main
        THEN request_result = NoResult
        ELSE request_result =
                [none |-> FALSE,
                 text |-> clean_translated_text(strip(raw_response))]

C34_Witness ==
    /\ lacks_markers
    /\ echoes_main
    /\ Len(raw_response) > Len(chunk_main_content)
    /\ request_result.none

\* The context the claim gives the chunk after the chunks 1..j: empty at the
\* start and after a failed chunk, the last 25 words of the last translated
\* chunk otherwise, chunks of whitespace only being passed over.
RECURSIVE claimed_context(_)
claimed_context(j) ==
    IF j = 0 THEN <<>>
    ELSE IF chunk_outcomes[j].kind = "blank" THEN claimed_context(j - 1)
    ELSE IF chunk_outcomes[j].kind = "failed" THEN <<>>
    ELSE LET n == chunk_outcomes[j].words
         IN  IF n <= 25 THEN [k \in 1..n |-> [chunk |-> j, word |-> k]]
             ELSE [k \in 1..25 |-> [chunk |-> j, word |-> n - 25 + k]]

\* C35: the context that translate_chunks places in the prompt of a chunk
\* is empty for the first chunk and right after a failed chunk, and
\* otherwise the last 25 words (the whole text when it has 25 words or
\* fewer) of the latest chunk translated; a chunk of whitespace only leaves
\* it as it is.
C35_RollingContext ==
    /\ llm_context = claimed_context(chunk_pos)
    /\ \A k \in DOMAIN prompt_contexts :
          prompt_contexts[k].context =
              claimed_context(prompt_contexts[k].chunk - 1)

C35_Witness ==
    /\ Len(chunk_outcomes) = 2
    /\ chunk_pos = 2
    /\ chunk_outcomes[1] = [kind |-> "translated", words |-> 26]
    /\ chunk_outcomes[2].kind = "translated"
    /\ Len(prompt_contexts) = 2
    /\ Len(prompt_contexts[2].context) = 25
    /\ prompt_contexts[2].context[1] = [chunk |-> 1, word |-> 2]

\* A block as the claim accepts it: a positive integer, a timecode line
\* and nothing else on it, with or without blanks around the arrow, and at
\* least one line of text.
valid_block(block) ==
    /\ Len(block) >= 3
    /\ block[1] = "1"
    /\ block[2] \in {"A --> B", "A-->B"}

\* C36: parse_srt accepts a block if and only if its first line is a
\* positive integer, its second line a timecode line
\* HH:MM:SS,mmm --> HH:MM:SS,mmm and at least one line of text follows;
\* every other block is skipped.
C36_AcceptsValidBlocksOnly ==
    pc = "reconstruct" =>
        LET found == split_blocks(srt_content, 1, <<>>, <<>>)
        IN  subtitles =
                [k \in 1..Len(SelectSeq(found, valid_block)) |->
                    [number |-> SelectSeq(found, valid_block)[k][1],
                     start_time |-> "A", end_time |-> "B",
                     text |-> SubSeq(SelectSeq(found, valid_block)[k], 3,
                                     Len(SelectSeq(found, valid_block)[k]))]]

\* The tag of index n and the places of extract_text where it stands.
index_tag(n) == IF n = 0 THEN "[0]" ELSE "[1]"

tag_places(n) == {k \in 1..Len(extract_text) : extract_text[k] = index_tag(n)}

\* The text between place k and the next tag, or the end of the text.
text_after(k) ==
    LET later == {m \in k + 1..Len(extract_text) :
                      is_index_tag(extract_text[m])}
        stop == IF later = {} THEN Len(extract_text) + 1
                ELSE CHOOSE m \in later : \A o \in later : m <= o
    IN text_strip(SubSeq(extract_text, k + 1, stop - 1))

\* C37: when every expected [index] tag occurs in the block translation,
\* wherever on a line, extract_block_translations returns an entry for every
\* expected index, and the entry of an index whose tag occurs once is the
\* text that follows the tag.
C37_EveryTagExtracted ==
    (/\ pc = "ex_returned"
     /\ \A n \in extract_indices : tag_places(n) # {})
    => \A n \in extract_indices :
           /\ n \in DOMAIN extract_translations
           /\ \A k \in tag_places(n) :
                  tag_places(n) = {k} => extract_translations[n] = text_after(k)

\* C38: the translation of an SRT block changes the texts of the subtitles
\* of that block only, whatever index tags the answer of the LLM holds: the
\* step that takes the answer of block block_idx leaves the translation of
\* every other subtitle of the file as it was.
C38_OnlyBlockTextsChange ==
    [][(pc = "sb_response")
       => (\A k \in (0..Sum(blocks) - 1) \ block_indices(blocks, block_idx) :
               translations'[k] = translations[k])]_vars

\* C39: the interrupt flag of a job is monotonic: once it is true, no
\* operation of the state store, of the worker or of the HTTP routes sets it
\* back to false.
C39_FlagMonotonic ==
    [][(job_record.interrupted) => (job_record'.interrupted)]_vars

\* C39, the worker and the routes of a job whose id no other request was
\* given: the flag of the job-level specification is never cleared.
C39_FlagMonotonicInOneJob ==
    [][(interrupted) => (interrupted')]_vars

\* C40: every submitted job eventually reaches a terminal status (completed,
\* interrupted or error), every HTTP request to the LLM returning or failing
\* within its timeout: the loops of the worker are all bounded.
C40_JobTerminates ==
    (status \in {"queued", "running"}) ~> (status \in Terminal)

\* An SRT job of MaxSubtitles subtitles, post-processing enabled, that went
\* through every block and ended completed with a subtitle that failed.
C40_Witness ==
    /\ status = "completed"
    /\ pc = "done"
    /\ config.file_type = "srt"
    /\ config.enable_post_processing
    /\ stats.total_subtitles = MaxSubtitles
    /\ stats.failed_subtitles > 0

====
